---- MODULE Spec2Model ----
(***************************************************************************)
(* Live coaching pipeline of the scam-detective hotline: the Twilio        *)
(* webhook ingest, the Supabase-backed live store, the advice stabilizer   *)
(* and the per-call advice worker (app/api/twilio/webhook/route.ts,        *)
(* lib/live-store.ts, lib/live-coach.ts, lib/live-types.ts).               *)
(*                                                                         *)
(* Representation choices:                                                 *)
(*  - confidence is kept in hundredths (0.75 is 75), scores are integers   *)
(*    (the code rounds every score with Math.round before using it);       *)
(*  - a nullable string is the token Null, a nullable timestamp is 0       *)
(*    (the code tests timestamps for truthiness, and Date.now() > 0);      *)
(*  - every await of the worker is one step: the database call or the      *)
(*    model call happens atomically at that step, with its outcome         *)
(*    (success or error) chosen by the environment.                        *)
(***************************************************************************)
EXTENDS Integers, Sequences, FiniteSets, TLC

VARIABLES
  now,                    \* Date.now()
  live_calls,             \* table live_calls, keyed by call_sid
  live_transcript_chunks, \* table live_transcript_chunks, in insertion (id) order
  adviceRunState,         \* globalThis.__twilioAdviceRunState : Map<callSid, AdviceRunState>
  tasks,                  \* the processAdviceQueue invocations in flight, per call
  env,                    \* process.env, as read when the route module is loaded
  hist,                   \* history of the run, per call (observations, not program state)
  harness                 \* inputs and result of the last pure-function application

vars == <<now, live_calls, live_transcript_chunks, adviceRunState, tasks, env, hist, harness>>

----------------------------------------------------------------------------
(* Bounds of the model *)

MaxTasks == 2       \* task slots per call (one is used unless serialization breaks)
MaxChunks == 2      \* transcript rows stored in one run
MaxElapsed == 12000 \* milliseconds the clock may advance in one run

(* Program constants *)

DEFAULT_GROQ_RPM_LIMIT == 30
DEFAULT_MODEL_MIN_INTERVAL_MS == 2800
MODEL_INTERVAL_BUFFER_MS == 400
RATE_LIMIT_BASE_BACKOFF_MS == 6000
RATE_LIMIT_MAX_BACKOFF_MS == 60000
RATE_LIMIT_STREAK_RESET_MS == 90000
ADVICE_TRANSCRIPT_LIMIT == 40
HEURISTIC_WINDOW == 10
ADVICE_DELAYED_MESSAGE == "Live analysis is delayed. Keep verifying through official channels."
ADVICE_RATE_LIMITED_MESSAGE == "Live analysis is temporarily rate-limited. Using local scoring for now."

Null == "<null>"
Undefined == "<undefined>"
CallIds == {"CA1", "CA2"}
TaskIds == 1..MaxTasks
StartTime == 100000  \* the clock at the start of a run (any value above the streak reset window)

----------------------------------------------------------------------------
(* lib/live-types.ts *)

getRiskLevel(score) ==
  IF score >= 70 THEN "high" ELSE IF score >= 40 THEN "medium" ELSE "low"

\* rawStatus.toLowerCase() followed by the substring tests, on the statuses
\* Twilio sends (CallStatus) and on the canonical names themselves.
normalizeSessionStatus(rawStatus) ==
  CASE rawStatus = Null -> "unknown"
    [] rawStatus = "" -> "unknown"
    [] rawStatus = "queued" -> "queued"
    [] rawStatus = "ringing" -> "ringing"
    [] rawStatus = "in-progress" -> "in-progress"
    [] rawStatus = "failed" -> "failed"
    [] rawStatus = "busy" -> "failed"
    [] rawStatus = "completed" -> "ended"
    [] rawStatus = "canceled" -> "ended"
    [] rawStatus = "ended" -> "ended"
    [] OTHER -> "unknown"

isTerminalStatus(status) == status = "ended" \/ status = "failed"

\* An absent advice (undefined in the code, SQL NULL in the advice column).
NoAdvice == [riskScore |-> 0, riskLevel |-> "none", confidence |-> 0]

createDefaultAdvice == [riskScore |-> 20, riskLevel |-> "low", confidence |-> 30]

----------------------------------------------------------------------------
(* lib/live-coach.ts: the stabilizer *)

clamp(value, min, max) ==
  IF value < min THEN min ELSE IF value > max THEN max ELSE value

Abs(x) == IF x < 0 THEN -x ELSE x
Sign(x) == IF x > 0 THEN 1 ELSE IF x < 0 THEN -1 ELSE 0

baseMaxStep(confidence) ==
  IF confidence >= 75 THEN 18 ELSE IF confidence >= 55 THEN 14 ELSE 10

\* Mutant: the band-crossing step is added to the base step.
maxStepFor_Additive(confidence, previousScore, targetScore) ==
  IF previousScore < 70 /\ targetScore >= 70
    THEN baseMaxStep(confidence) + 22 ELSE baseMaxStep(confidence)

maxStepFor(confidence, previousScore, targetScore) ==
  LET crossingHighRisk == previousScore < 70 /\ targetScore >= 70
  IN  IF crossingHighRisk
        THEN (IF baseMaxStep(confidence) > 22 THEN baseMaxStep(confidence) ELSE 22)
        ELSE baseMaxStep(confidence)

\* Mutant: a target within 3 points of the previous score is ignored.
smoothRiskScore_DeadZone(nextScore, confidence, previousAdvice) ==
  LET targetScore == clamp(nextScore, 0, 100)
  IN  IF previousAdvice = NoAdvice THEN targetScore
      ELSE
        LET previousScore == clamp(previousAdvice.riskScore, 0, 100)
            delta == targetScore - previousScore
            maxStep == maxStepFor(clamp(confidence, 0, 100), previousScore, targetScore)
        IN  IF Abs(delta) <= 3 THEN previousScore
            ELSE IF Abs(delta) <= maxStep THEN targetScore
            ELSE clamp(previousScore + Sign(delta) * maxStep, 0, 100)

smoothRiskScore(nextScore, confidence, previousAdvice) ==
  LET targetScore == clamp(nextScore, 0, 100)
  IN  IF previousAdvice = NoAdvice THEN targetScore
      ELSE
        LET previousScore == clamp(previousAdvice.riskScore, 0, 100)
            delta == targetScore - previousScore
            maxStep == maxStepFor(clamp(confidence, 0, 100), previousScore, targetScore)
        IN  IF delta = 0 THEN previousScore
            ELSE IF Abs(delta) <= maxStep THEN targetScore
            ELSE clamp(previousScore + Sign(delta) * maxStep, 0, 100)

\* Mutant: the advice keeps the risk level it came with.
stabilizeAdvice_KeepLevel(nextAdvice, previousAdvice) ==
  [riskScore |-> smoothRiskScore(nextAdvice.riskScore, clamp(nextAdvice.confidence, 0, 100),
                                 previousAdvice),
   riskLevel |-> nextAdvice.riskLevel,
   confidence |-> clamp(nextAdvice.confidence, 0, 100)]

stabilizeAdvice(nextAdvice, previousAdvice) ==
  LET confidence == clamp(nextAdvice.confidence, 0, 100)
      stabilizedRiskScore == smoothRiskScore(nextAdvice.riskScore, confidence, previousAdvice)
  IN  [riskScore |-> stabilizedRiskScore,
       riskLevel |-> getRiskLevel(stabilizedRiskScore),
       confidence |-> confidence]

----------------------------------------------------------------------------
(* Transcript text.  A text is one of a few sample utterances; what the    *)
(* code computes from a text (trim, toLowerCase, the regex banks) is       *)
(* tabulated for the samples.                                              *)

TextSamples ==
  {"hello", "Hello ", " ",
   "buy gift cards now",
   "This is urgent, buy gift cards and share your OTP",
   "wire transfer or bitcoin; your SSN and bank account; there is a warrant",
   "we saw suspicious activity"}

\* String.prototype.trim
trim(text) ==
  CASE text = "Hello " -> "Hello"
    [] text = " " -> ""
    [] OTHER -> text

\* String.prototype.toLowerCase
toLowerCase(text) ==
  CASE text = "Hello" -> "hello"
    [] text = "Hello " -> "hello "
    [] text = "This is urgent, buy gift cards and share your OTP"
         -> "this is urgent, buy gift cards and share your otp"
    [] text = "wire transfer or bitcoin; your SSN and bank account; there is a warrant"
         -> "wire transfer or bitcoin; your ssn and bank account; there is a warrant"
    [] OTHER -> text

\* The indices (1..9) of the HIGH_RISK_PATTERNS that match a lower-cased text.
HighRiskMatches(text) ==
  CASE text = "buy gift cards now" -> {1}
    [] text = "this is urgent, buy gift cards and share your otp" -> {1, 4, 8}
    [] text = "wire transfer or bitcoin; your ssn and bank account; there is a warrant"
         -> {2, 3, 5, 6, 9}
    [] OTHER -> {}

\* The indices (1..5) of the MEDIUM_RISK_PATTERNS that match a lower-cased text.
MediumRiskMatches(text) ==
  CASE text = "we saw suspicious activity" -> {2}
    [] OTHER -> {}

\* transcript.slice(-n)
LastN(seq, n) ==
  IF Len(seq) <= n THEN seq ELSE SubSeq(seq, Len(seq) - n + 1, Len(seq))

getRecentTranscript(transcript) == LastN(transcript, ADVICE_TRANSCRIPT_LIMIT)

\* The sample texts are whole phrases, so a pattern matches the joined text
\* exactly when it matches one of the joined entries.
buildHeuristicAdvice(transcript, previousAdvice) ==
  LET recent == LastN(transcript, HEURISTIC_WINDOW)
      high == UNION {HighRiskMatches(toLowerCase(recent[i].text)) : i \in 1..Len(recent)}
      medium == UNION {MediumRiskMatches(toLowerCase(recent[i].text)) : i \in 1..Len(recent)}
      score == clamp(20 + 15 * Cardinality(high) + 8 * Cardinality(medium), 5, 95)
      riskLevel == getRiskLevel(score)
  IN  [riskScore |-> score,
       riskLevel |-> riskLevel,
       confidence |-> IF riskLevel = "high" THEN 55
                      ELSE IF riskLevel = "medium" THEN 50 ELSE 45]

generateHeuristicAdvice(transcript, previousAdvice) ==
  LET recentTranscript == getRecentTranscript(transcript)
  IN  IF Len(recentTranscript) = 0
        THEN (IF previousAdvice = NoAdvice THEN createDefaultAdvice ELSE previousAdvice)
        ELSE buildHeuristicAdvice(recentTranscript, previousAdvice)


----------------------------------------------------------------------------
(* lib/live-store.ts *)

\* A call_sid with no row in live_calls.
NoRow ==
  [exists |-> FALSE, slug |-> Null, status |-> Null, assistant_muted |-> FALSE,
   analyzing |-> FALSE, last_error |-> Null, advice |-> NoAdvice, last_advice_at |-> 0]

\* The columns an insert leaves to their defaults (the table definition is
\* not part of the sources; the values are those of the data model).
DefaultRow ==
  [exists |-> TRUE, slug |-> Null, status |-> "unknown", assistant_muted |-> TRUE,
   analyzing |-> FALSE, last_error |-> Null, advice |-> NoAdvice, last_advice_at |-> 0]

normalizeSpeaker(value) ==
  IF value = "caller" THEN "caller" ELSE IF value = "other" THEN "other" ELSE "unknown"

toSpeaker(value) == normalizeSpeaker(value)

toAdvice(payload) ==
  IF payload = NoAdvice THEN createDefaultAdvice
  ELSE LET riskScore == clamp(payload.riskScore, 0, 100)
       IN  [riskScore |-> riskScore,
            riskLevel |-> IF payload.riskLevel \in {"low", "medium", "high"}
                            THEN payload.riskLevel ELSE getRiskLevel(riskScore),
            confidence |-> clamp(payload.confidence, 0, 100)]

\* supabase.from('live_calls').upsert(payload, { onConflict: 'call_sid' }):
\* insert the row, or overwrite the payload's columns of the existing row.
upsertLiveCallSession(table, callSid, slug, status) ==
  LET old == IF table[callSid].exists THEN table[callSid] ELSE DefaultRow
  IN  [table EXCEPT ![callSid] =
         [old EXCEPT !.slug = slug,
                     !.assistant_muted = TRUE,
                     !.status = IF status \notin {Null, Undefined, ""}
                                  THEN normalizeSessionStatus(status) ELSE @]]

\* update(...).eq('call_sid', callSid): no row, no change.
setLiveCallStatus(table, callSid, status, lastError) ==
  IF ~table[callSid].exists THEN table
  ELSE [table EXCEPT ![callSid] =
          [@ EXCEPT !.status = normalizeSessionStatus(status),
                    !.last_error = IF lastError # Undefined THEN lastError ELSE @]]

setLiveCallAnalyzing(table, callSid, analyzing) ==
  IF ~table[callSid].exists THEN table
  ELSE [table EXCEPT ![callSid] = [@ EXCEPT !.analyzing = analyzing]]

setLiveCallAdvice(table, callSid, advice, lastError, analyzing, nowIso) ==
  IF ~table[callSid].exists THEN table
  ELSE [table EXCEPT ![callSid] =
          [@ EXCEPT !.advice = advice,
                    !.last_error = lastError,
                    !.analyzing = analyzing,
                    !.last_advice_at = nowIso]]

\* The positions of the rows of one (call_sid, source_event_id).
RowsOf(chunks, callSid, sourceEventId) ==
  {i \in 1..Len(chunks) :
     chunks[i].call_sid = callSid /\ chunks[i].source_event_id = sourceEventId}

\* Mutant: a plain insert, with no conflict target.
appendTranscriptChunk_AlwaysInsert(chunks, callSid, sourceEventId, speaker, text, isFinal, timestamp) ==
  IF trim(text) = "" THEN chunks
  ELSE Append(chunks, [id |-> Len(chunks) + 1, call_sid |-> callSid,
                       source_event_id |-> sourceEventId,
                       speaker |-> normalizeSpeaker(speaker), text |-> trim(text),
                       is_final |-> isFinal, timestamp_ms |-> timestamp])

\* upsert(payload, { onConflict: 'call_sid,source_event_id' }): insert the
\* row under a fresh id, or overwrite the payload's columns of the row that
\* holds the key.
appendTranscriptChunk(chunks, callSid, sourceEventId, speaker, text, isFinal, timestamp) ==
  LET content == trim(text)
      Payload(id) == [id |-> id, call_sid |-> callSid, source_event_id |-> sourceEventId,
                      speaker |-> normalizeSpeaker(speaker), text |-> content,
                      is_final |-> isFinal, timestamp_ms |-> timestamp]
      hit == RowsOf(chunks, callSid, sourceEventId)
  IN  IF content = "" THEN chunks
      ELSE IF hit # {}
        THEN [i \in 1..Len(chunks) |->
                IF i \in hit THEN Payload(chunks[i].id) ELSE chunks[i]]
        ELSE Append(chunks, Payload(Len(chunks) + 1))

\* Mutant: the rows in ascending order of id, cut at the limit.
getTranscriptChunks_OldestRows(chunks, callSid, limit) ==
  LET OfCall(row) == row.call_sid = callSid
      mine == SelectSeq(chunks, OfCall)
      rows == IF Len(mine) <= limit THEN mine ELSE SubSeq(mine, 1, limit)
  IN  [i \in 1..Len(rows) |->
         [id |-> rows[i].id, speaker |-> toSpeaker(rows[i].speaker),
          text |-> rows[i].text, timestamp |-> rows[i].timestamp_ms,
          isFinal |-> rows[i].is_final]]

\* select ... eq(call_sid).order('id', descending).limit(limit), reversed.
getTranscriptChunks(chunks, callSid, limit) ==
  LET OfCall(row) == row.call_sid = callSid
      mine == SelectSeq(chunks, OfCall)
      rows == LastN(mine, limit)
  IN  [i \in 1..Len(rows) |->
         [id |-> rows[i].id, speaker |-> toSpeaker(rows[i].speaker),
          text |-> rows[i].text, timestamp |-> rows[i].timestamp_ms,
          isFinal |-> rows[i].is_final]]

NoSummary == [found |-> FALSE, slug |-> Null, status |-> Null, lastAdviceAt |-> 0,
              advice |-> NoAdvice]

getLiveCallSummary(table, callSid) ==
  IF ~table[callSid].exists THEN NoSummary
  ELSE [found |-> TRUE, slug |-> table[callSid].slug, status |-> table[callSid].status,
        lastAdviceAt |-> table[callSid].last_advice_at,
        advice |-> toAdvice(table[callSid].advice)]

NoSnapshot == [found |-> FALSE]

getLiveSessionSnapshot(table, chunks, callSid, slug, transcriptLimit) ==
  IF ~table[callSid].exists \/ table[callSid].slug # slug THEN NoSnapshot
  ELSE [found |-> TRUE,
        callId |-> callSid,
        slug |-> table[callSid].slug,
        status |-> normalizeSessionStatus(table[callSid].status),
        assistantMuted |-> table[callSid].assistant_muted,
        analyzing |-> table[callSid].analyzing,
        lastError |-> table[callSid].last_error,
        advice |-> toAdvice(table[callSid].advice),
        transcript |-> getTranscriptChunks(chunks, callSid, transcriptLimit)]


----------------------------------------------------------------------------
(* lib/twilio-webhook.ts: the dedup fingerprint *)

\* Mutant: the speaker is part of the fingerprint.
buildSourceEventId_WithSpeaker(callSid, transcriptionSid, sequenceId, segmentSid, sourceHint, timestamp, speaker, text) ==
  LET joined == IF transcriptionSid # Null /\ sequenceId # Null
                  THEN transcriptionSid \o ":" \o sequenceId
                ELSE IF transcriptionSid # Null THEN transcriptionSid
                ELSE IF sequenceId # Null THEN sequenceId
                ELSE ""
      primaryId == IF segmentSid # Null THEN segmentSid
                   ELSE IF sourceHint # Null THEN sourceHint
                   ELSE IF joined # "" THEN joined
                   ELSE ToString(timestamp) \o ":" \o speaker
  IN  callSid \o "|" \o primaryId \o "|" \o speaker \o "|" \o toLowerCase(trim(text))

\* The SHA-1 input of the fingerprint; the hash is taken to be injective.
buildSourceEventId(callSid, transcriptionSid, sequenceId, segmentSid, sourceHint, timestamp, speaker, text) ==
  LET joined == IF transcriptionSid # Null /\ sequenceId # Null
                  THEN transcriptionSid \o ":" \o sequenceId
                ELSE IF transcriptionSid # Null THEN transcriptionSid
                ELSE IF sequenceId # Null THEN sequenceId
                ELSE ""
      primaryId == IF segmentSid # Null THEN segmentSid
                   ELSE IF sourceHint # Null THEN sourceHint
                   ELSE IF joined # "" THEN joined
                   ELSE ToString(timestamp) \o ":" \o speaker
  IN  callSid \o "|" \o primaryId \o "|" \o toLowerCase(trim(text))

----------------------------------------------------------------------------
(* app/api/twilio/webhook/route.ts: the per-call advice worker *)

getModelMinIntervalMs(explicitIntervalMs, rpmLimit) ==
  IF explicitIntervalMs > 0 THEN explicitIntervalMs
  ELSE LET rpm == IF rpmLimit > 0 THEN rpmLimit ELSE DEFAULT_GROQ_RPM_LIMIT
           ceil == (60000 + rpm - 1) \div rpm
           intervalFromRpm == ceil + MODEL_INTERVAL_BUFFER_MS
       IN  IF DEFAULT_MODEL_MIN_INTERVAL_MS > intervalFromRpm
             THEN DEFAULT_MODEL_MIN_INTERVAL_MS ELSE intervalFromRpm

HAS_GROQ_MODEL == env.GROQ_API_KEY
MODEL_MIN_INTERVAL_MS == getModelMinIntervalMs(env.GROQ_MIN_INTERVAL_MS, env.GROQ_RPM_LIMIT)

\* A call_sid with no entry in the map.
NoState ==
  [exists |-> FALSE, running |-> FALSE, pending |-> FALSE, forceModel |-> FALSE,
   lastModelRunAt |-> 0, modelCooldownUntil |-> 0, rateLimitStreak |-> 0,
   lastRateLimitAt |-> 0, terminal |-> FALSE]

\* The entry runAdviceForCall creates.
NewState == [NoState EXCEPT !.exists = TRUE]

\* A free task slot.
IdleTask ==
  [pc |-> "idle", forceModel |-> FALSE, callEnded |-> FALSE,
   previousAdvice |-> NoAdvice,
   heuristicTarget |-> 0,       \* riskScore of the raw heuristic advice
   heuristicAdvice |-> NoAdvice,
   modelTarget |-> 0,           \* riskScore of the raw model advice
   modelAdvice |-> NoAdvice,    \* stabilizedModelAdvice
   errorStatus |-> -1,          \* statusCode of the caught error (-1: none, 0: no HTTP error)
   lastError |-> Null]

\* The places of a task inside runAdviceCycle (each is an await of the cycle).
CyclePcs == {"summary", "chunks", "heuristic", "analyzing", "model",
             "modelWrite", "fallback"}

\* Mutant: the force flag of the mailbox is overwritten, not or-ed.
Enqueued_Overwrite(state, force) ==
  LET current == IF state.exists THEN state ELSE NewState
  IN  [current EXCEPT !.pending = TRUE, !.forceModel = force]

\* Mutant: an enqueue that finds the loop running leaves no mark.
Enqueued_DropWhenRunning(state, force) ==
  LET current == IF state.exists THEN state ELSE NewState
  IN  IF current.running THEN current
      ELSE [current EXCEPT !.pending = TRUE, !.forceModel = current.forceModel \/ force]

\* runAdviceForCall, up to the test of running.
Enqueued(state, force) ==
  LET current == IF state.exists THEN state ELSE NewState
  IN  [current EXCEPT !.pending = TRUE, !.forceModel = current.forceModel \/ force]

\* Mutant: the loop is entered without marking the mailbox as running.
LoopEntered_Unmarked(state) == state

\* processAdviceQueue: current.running = true
LoopEntered(state) == [state EXCEPT !.running = TRUE]

\* One turn of the while loop, up to the call of runAdviceCycle.
LoopTurn(state) == [state EXCEPT !.pending = FALSE, !.forceModel = FALSE]

FirstTask(force) == [IdleTask EXCEPT !.pc = "summary", !.forceModel = force]

FreeSlots(c) == {k \in TaskIds : tasks[c][k].pc = "idle"}

\* processAdviceQueue(callSid), from its call to the first await of the
\* first cycle; the caller has stored `current` in the map.
processAdviceQueue(c, current) ==
  IF ~current.exists \/ current.running
    THEN /\ adviceRunState' = [adviceRunState EXCEPT ![c] = current]
         /\ UNCHANGED tasks
  ELSE IF LoopEntered(current).pending
    THEN /\ FreeSlots(c) # {}
         /\ LET k == CHOOSE k \in FreeSlots(c) : \A j \in FreeSlots(c) : k <= j
            IN  tasks' = [tasks EXCEPT ![c][k] = FirstTask(LoopEntered(current).forceModel)]
         /\ adviceRunState' = [adviceRunState EXCEPT ![c] = LoopTurn(LoopEntered(current))]
  ELSE \* the loop body is skipped and the finally block runs at once
       /\ adviceRunState' =
            [adviceRunState EXCEPT ![c] =
               IF current.terminal THEN NoState ELSE [current EXCEPT !.running = FALSE]]
       /\ UNCHANGED tasks

runAdviceForCall(c, force) ==
  LET current == Enqueued(adviceRunState[c], force)
  IN  IF current.running
        THEN /\ adviceRunState' = [adviceRunState EXCEPT ![c] = current]
             /\ UNCHANGED tasks
        ELSE processAdviceQueue(c, current)

\* Mutant: the backoff doubles without the 60 000 ms ceiling.
getRateLimitBackoffMs_NoCeiling(error, state, at) ==
  IF ~(error.isModelAdviceError /\ error.statusCode = 429)
    THEN [state |-> [state EXCEPT !.rateLimitStreak = 0, !.lastRateLimitAt = 0],
          backoffMs |-> 0]
  ELSE LET streak == (IF at - state.lastRateLimitAt > RATE_LIMIT_STREAK_RESET_MS
                        THEN 0 ELSE state.rateLimitStreak) + 1
           raw == RATE_LIMIT_BASE_BACKOFF_MS * 2 ^ (streak - 1)
       IN  [state |-> [state EXCEPT !.rateLimitStreak = streak, !.lastRateLimitAt = at],
            backoffMs |-> IF raw > error.retryAfterMs THEN raw ELSE error.retryAfterMs]

\* getRateLimitBackoffMs: the state it leaves and the backoff it returns.
getRateLimitBackoffMs(error, state, at) ==
  IF ~(error.isModelAdviceError /\ error.statusCode = 429)
    THEN [state |-> [state EXCEPT !.rateLimitStreak = 0, !.lastRateLimitAt = 0],
          backoffMs |-> 0]
  ELSE LET streak == (IF at - state.lastRateLimitAt > RATE_LIMIT_STREAK_RESET_MS
                        THEN 0 ELSE state.rateLimitStreak) + 1
           raw == RATE_LIMIT_BASE_BACKOFF_MS * 2 ^ (streak - 1)
           exponentialBackoffMs == IF raw > RATE_LIMIT_MAX_BACKOFF_MS
                                     THEN RATE_LIMIT_MAX_BACKOFF_MS ELSE raw
           retryAfterMs == error.retryAfterMs
       IN  [state |-> [state EXCEPT !.rateLimitStreak = streak, !.lastRateLimitAt = at],
            backoffMs |-> IF exponentialBackoffMs > retryAfterMs
                            THEN exponentialBackoffMs ELSE retryAfterMs]

\* Mutant: every failure is reported with the delayed note.
ModelFailed_AlwaysDelayed(state, error, failedAt) ==
  LET bumped == [state EXCEPT !.lastModelRunAt = failedAt]
      r == getRateLimitBackoffMs(error, bumped, failedAt)
  IN  [state |-> IF r.backoffMs > 0
                   THEN [r.state EXCEPT !.modelCooldownUntil = failedAt + r.backoffMs]
                   ELSE r.state,
       lastError |-> ADVICE_DELAYED_MESSAGE]

\* The catch block of runAdviceCycle, up to its await.
ModelFailed(state, error, failedAt) ==
  LET bumped == [state EXCEPT !.lastModelRunAt = failedAt]
      r == getRateLimitBackoffMs(error, bumped, failedAt)
  IN  [state |-> IF r.backoffMs > 0
                   THEN [r.state EXCEPT !.modelCooldownUntil = failedAt + r.backoffMs]
                   ELSE r.state,
       lastError |-> IF r.backoffMs > 0 THEN ADVICE_RATE_LIMITED_MESSAGE
                     ELSE ADVICE_DELAYED_MESSAGE]

\* The success path of runAdviceCycle after the model advice is stored.
ModelSucceeded(state, at) ==
  [state EXCEPT !.lastModelRunAt = at, !.modelCooldownUntil = 0,
                !.rateLimitStreak = 0, !.lastRateLimitAt = 0]

\* Mutant: the minimum interval is not required.
shouldRunModel_NoInterval(state, forceModel, callEnded, at) ==
  HAS_GROQ_MODEL /\ at >= state.modelCooldownUntil

shouldRunModel(state, forceModel, callEnded, at) ==
  /\ HAS_GROQ_MODEL
  /\ at >= state.modelCooldownUntil
  /\ (forceModel \/ callEnded \/ at - state.lastModelRunAt >= MODEL_MIN_INTERVAL_MS)


----------------------------------------------------------------------------
(* History of a run, kept for the properties; the program does not read it *)

NoHist ==
  [owedForce |-> FALSE,    \* a forced enqueue arrived while the loop was running
                           \* and no cycle has started since
   requestAt |-> 0,        \* when the last model request was issued (0: never)
   holdUntil |-> 0,        \* failure time + max(retry_after_ms, 6000) of the last 429
   duplicate |-> FALSE,    \* a transcript event arrived whose key was already stored
   wrotePrev |-> -1,       \* the score stored before the last advice write (-1: none)
   wroteRaw |-> 0]         \* the raw score that write stabilized

\* The row's advice write as the history sees it.
Written(c, raw) ==
  [hist[c] EXCEPT !.wrotePrev = IF live_calls[c].exists /\ live_calls[c].last_advice_at # 0
                                  THEN live_calls[c].advice.riskScore ELSE -1,
                  !.wroteRaw = raw]

----------------------------------------------------------------------------
(* The webhook: POST of app/api/twilio/webhook/route.ts, from the parsed   *)
(* event on.  The handler's awaits are database calls; it is taken as one  *)
(* step.                                                                   *)

isValidSlug(slug) == slug \in {"case-a", "case-b"}

NoTranscript == [present |-> FALSE]

\* parseTwilioWebhookEvent: the transcript of an event whose text parameter
\* is `text`.  readString trims the parameter; a blank one is no transcript.
Transcript(callSid, transcriptionSid, sequenceId, speaker, text, isFinal, timestamp) ==
  LET transcriptText == trim(text)
  IN  IF transcriptText = "" THEN NoTranscript
      ELSE [present |-> TRUE, text |-> transcriptText, speaker |-> speaker,
            isFinal |-> isFinal, timestamp |-> timestamp,
            sourceEventId |-> buildSourceEventId(callSid, transcriptionSid, sequenceId, Null,
                                                 Null, timestamp, speaker, transcriptText)]

\* The slug the handler settles on (Null: respond 400).
ResolveSlug(callSid, eventSlug) ==
  IF isValidSlug(eventSlug) THEN eventSlug
  ELSE getLiveCallSummary(live_calls, callSid).slug

\* The session writes of the handler: upsert, then the status write.
IngestSession(table, callSid, slug, status) ==
  LET upserted == upsertLiveCallSession(table, callSid, slug, status)
  IN  IF status # Null /\ status # ""
        THEN LET normalized == normalizeSessionStatus(status)
                 statusError == IF normalized = "failed"
                                  THEN "Call status changed to " \o status \o "."
                                  ELSE Null
             IN  setLiveCallStatus(upserted, callSid, normalized, statusError)
        ELSE upserted

IngestChunks(chunks, callSid, transcript) ==
  IF transcript.present
    THEN appendTranscriptChunk(chunks, callSid, transcript.sourceEventId, transcript.speaker,
                               transcript.text, transcript.isFinal, transcript.timestamp)
    ELSE chunks

\* Whether the handler calls runAdviceForCall, and with which force flag.
EnqueuesAdvice(status, transcript) ==
  transcript.present \/ isTerminalStatus(normalizeSessionStatus(status))

EnqueueForce(status, transcript) ==
  IF transcript.present
    THEN transcript.isFinal \/ isTerminalStatus(normalizeSessionStatus(status))
    ELSE TRUE

\* The event carries a text whose (call_sid, source_event_id) is stored.
RepeatsKey(c, transcript) ==
  /\ transcript.present
  /\ trim(transcript.text) # ""
  /\ RowsOf(live_transcript_chunks, c, transcript.sourceEventId) # {}

HandleEvent(c, eventSlug, status, transcript) ==
  LET slug == ResolveSlug(c, eventSlug)
      force == EnqueueForce(status, transcript)
  IN  /\ slug # Null
      /\ Len(IngestChunks(live_transcript_chunks, c, transcript)) <= MaxChunks
      /\ live_calls' = IngestSession(live_calls, c, slug, status)
      /\ live_transcript_chunks' = IngestChunks(live_transcript_chunks, c, transcript)
      /\ IF EnqueuesAdvice(status, transcript)
           THEN /\ runAdviceForCall(c, force)
                /\ hist' = [hist EXCEPT ![c].owedForce =
                              @ \/ (force /\ adviceRunState[c].running),
                                        ![c].duplicate = @ \/ RepeatsKey(c, transcript)]
           ELSE UNCHANGED <<adviceRunState, tasks, hist>>
      /\ UNCHANGED <<now, env>>

\* The handler for a request that passes the checks made before the event is
\* read (configuration, signature, call id, account).
POST(c, eventSlug, status, transcript) ==
  /\ HandleEvent(c, eventSlug, status, transcript)
  /\ UNCHANGED harness

\* getTwilioConfig(): the account id and auth token of the deployment, or
\* nothing when they are not configured.
getTwilioConfig ==
  [present |-> env.TWILIO_ACCOUNT_SID # Null, accountSid |-> env.TWILIO_ACCOUNT_SID]

shouldSkipTwilioWebhookValidation == env.TWILIO_WEBHOOK_SKIP_SIGNATURE_VALIDATION

\* The signature header that is the HMAC of the request under the auth token;
\* every other header value fails the comparison.
ValidSignature == "hmac-ok"

isValidTwilioSignature(signature) == signature = ValidSignature

NoResponse == [status |-> 0, ok |-> FALSE, error |-> Null]

JsonResponse(status, error) == [status |-> status, ok |-> error = Null, error |-> error]

\* A variant of the checks that compares the account ids before it looks
\* for the call id.
EarlyResponse_AccountFirst(request) ==
  LET twilioConfig == getTwilioConfig
      skipValidation == shouldSkipTwilioWebhookValidation
  IN  IF ~twilioConfig.present /\ ~skipValidation
        THEN JsonResponse(500, "Twilio server configuration is missing.")
      ELSE IF ~skipValidation /\ request.signature = Null
        THEN JsonResponse(401, "Missing Twilio signature.")
      ELSE IF ~skipValidation /\ ~isValidTwilioSignature(request.signature)
        THEN JsonResponse(401, "Invalid Twilio signature.")
      ELSE IF /\ twilioConfig.present
              /\ request.accountSid # Null
              /\ request.accountSid # twilioConfig.accountSid
        THEN JsonResponse(401, "Twilio account mismatch.")
      ELSE IF request.callSid = Null
        THEN JsonResponse(200, Null)
      ELSE NoResponse

\* The responses POST returns before it touches the store, in the order of
\* the code; NoResponse when the request reaches the try block.
EarlyResponse(request) ==
  LET twilioConfig == getTwilioConfig
      skipValidation == shouldSkipTwilioWebhookValidation
  IN  IF ~twilioConfig.present /\ ~skipValidation
        THEN JsonResponse(500, "Twilio server configuration is missing.")
      ELSE IF ~skipValidation /\ request.signature = Null
        THEN JsonResponse(401, "Missing Twilio signature.")
      ELSE IF ~skipValidation /\ ~isValidTwilioSignature(request.signature)
        THEN JsonResponse(401, "Invalid Twilio signature.")
      ELSE IF request.callSid = Null
        THEN JsonResponse(200, Null)
      ELSE IF /\ twilioConfig.present
              /\ request.accountSid # Null
              /\ request.accountSid # twilioConfig.accountSid
        THEN JsonResponse(401, "Twilio account mismatch.")
      ELSE NoResponse

\* parseTwilioWebhookEvent: the slug of the event is the query parameter
\* when the URL has one (whatever its value), else the body's slug field.
EventSlug(request) ==
  IF request.querySlug # Null THEN request.querySlug ELSE request.bodySlug

\* The awaited database calls of the try block; "none" stands for a request
\* during which no database call fails.
DatabaseCalls == {"summary", "upsert", "status", "append"}

\* The database calls POST makes for the event of a request that reached
\* the try block.
CallsMade(request) ==
  LET slug == ResolveSlug(request.callSid, EventSlug(request))
  IN  (IF isValidSlug(EventSlug(request)) THEN {} ELSE {"summary"})
      \cup (IF slug = Null THEN {} ELSE {"upsert"})
      \cup (IF slug # Null /\ request.status \notin {Null, ""} THEN {"status"} ELSE {})
      \cup (IF slug # Null /\ request.transcript.present THEN {"append"} ELSE {})

\* A variant in which a failed append is not reported to the handler.
Thrown_AppendIgnored(request, fails) == fails \in CallsMade(request) \ {"append"}

\* The try block throws: the failing database call is one the request makes.
Thrown(request, fails) == fails \in CallsMade(request)

\* The message of the Error the store function throws.
ErrorMessage(fails) ==
  CASE fails = "summary" -> "Failed to load live call summary"
    [] fails = "upsert" -> "Failed to upsert live call session"
    [] fails = "status" -> "Failed to update live call status"
    [] fails = "append" -> "Failed to append transcript chunk"

\* The rows written before the failing call threw.
WrittenBefore(request, fails) ==
  LET c == request.callSid
      slug == ResolveSlug(c, EventSlug(request))
  IN  IF fails = "status" THEN upsertLiveCallSession(live_calls, c, slug, request.status)
      ELSE IF fails = "append" THEN IngestSession(live_calls, c, slug, request.status)
      ELSE live_calls

\* POST with its response: harness keeps the request, the database call
\* that failed during it and what was answered.
Deliver(request, fails) ==
  LET early == EarlyResponse(request)
      Answer(response) == harness' = [request |-> request, fails |-> fails, response |-> response]
  IN  IF early # NoResponse
        THEN /\ Answer(early)
             /\ UNCHANGED <<now, live_calls, live_transcript_chunks, adviceRunState,
                            tasks, env, hist>>
      ELSE IF Thrown(request, fails)
        THEN /\ Answer(JsonResponse(500, ErrorMessage(fails)))
             /\ live_calls' = WrittenBefore(request, fails)
             /\ UNCHANGED <<now, live_transcript_chunks, adviceRunState, tasks, env, hist>>
      ELSE IF ResolveSlug(request.callSid, EventSlug(request)) = Null
        THEN /\ Answer(JsonResponse(400, "Missing case slug for call session."))
             /\ UNCHANGED <<now, live_calls, live_transcript_chunks, adviceRunState,
                            tasks, env, hist>>
      ELSE /\ HandleEvent(request.callSid, EventSlug(request), request.status,
                          request.transcript)
           /\ Answer(JsonResponse(200, Null))

\* A request during which every database call succeeds.
Webhook(request) == Deliver(request, "none")

----------------------------------------------------------------------------
(* The worker's steps.  c is the call, k the task slot, ok whether the     *)
(* awaited database call succeeded.                                        *)

SetTask(c, k, t) == tasks' = [tasks EXCEPT ![c][k] = t]

\* Mutant: one mailbox serves every call.
SetState_Shared(c, st) == adviceRunState' = [d \in CallIds |-> st]

SetState(c, st) == adviceRunState' = [adviceRunState EXCEPT ![c] = st]

\* await getLiveCallSummary(callSid), and the code up to the next await.
SummaryStep(c, k, ok) ==
  LET t == tasks[c][k]
      summary == getLiveCallSummary(live_calls, c)
      callEnded == isTerminalStatus(normalizeSessionStatus(summary.status))
  IN  /\ t.pc = "summary"
      /\ IF ~ok
           THEN SetTask(c, k, [t EXCEPT !.pc = "catch"]) /\ UNCHANGED adviceRunState
         ELSE IF ~summary.found
           THEN /\ SetState(c, [adviceRunState[c] EXCEPT !.terminal = TRUE])
                /\ SetTask(c, k, [t EXCEPT !.pc = "loop"])
         ELSE /\ SetState(c, [adviceRunState[c] EXCEPT !.terminal = callEnded])
              /\ SetTask(c, k, [t EXCEPT !.pc = "chunks",
                                         !.callEnded = callEnded,
                                         !.previousAdvice =
                                            IF summary.lastAdviceAt # 0
                                              THEN summary.advice ELSE NoAdvice])
      /\ UNCHANGED <<now, live_calls, live_transcript_chunks, env, hist, harness>>

\* await getTranscriptChunks(callSid, 40), then the heuristic advice.
ChunksStep(c, k, ok) ==
  LET t == tasks[c][k]
      transcript == getTranscriptChunks(live_transcript_chunks, c, ADVICE_TRANSCRIPT_LIMIT)
      nextAdvice == generateHeuristicAdvice(transcript, t.previousAdvice)
  IN  /\ t.pc = "chunks"
      /\ IF ~ok
           THEN SetTask(c, k, [t EXCEPT !.pc = "catch"])
         ELSE IF Len(transcript) = 0
           THEN SetTask(c, k, [t EXCEPT !.pc = "loop"])
         ELSE SetTask(c, k, [t EXCEPT !.pc = "heuristic",
                                      !.heuristicTarget = nextAdvice.riskScore,
                                      !.heuristicAdvice =
                                         stabilizeAdvice(nextAdvice, t.previousAdvice)])
      /\ UNCHANGED <<now, live_calls, live_transcript_chunks, adviceRunState, env, hist,
                     harness>>

\* await setLiveCallAdvice(heuristicAdvice, ...).catch(() => {}), then the
\* decision to run the model.
HeuristicWriteStep(c, k, ok) ==
  LET t == tasks[c][k]
      run == shouldRunModel(adviceRunState[c], t.forceModel, t.callEnded, now)
  IN  /\ t.pc = "heuristic"
      /\ IF ok /\ live_calls[c].exists
           THEN /\ live_calls' = setLiveCallAdvice(live_calls, c, t.heuristicAdvice,
                                                   Null, FALSE, now)
                /\ hist' = [hist EXCEPT ![c] = Written(c, t.heuristicTarget)]
           ELSE UNCHANGED <<live_calls, hist>>
      /\ SetTask(c, k, [t EXCEPT !.pc = IF run THEN "analyzing" ELSE "loop"])
      /\ UNCHANGED <<now, live_transcript_chunks, adviceRunState, env, harness>>

\* await setLiveCallAnalyzing(callSid, true).catch(() => {}), then the call
\* of generateModelAdvice up to its fetch: the model request is issued.
AnalyzingStep(c, k, ok) ==
  LET t == tasks[c][k]
  IN  /\ t.pc = "analyzing"
      /\ live_calls' = IF ok THEN setLiveCallAnalyzing(live_calls, c, TRUE) ELSE live_calls
      /\ SetTask(c, k, [t EXCEPT !.pc = "model"])
      /\ hist' = [hist EXCEPT ![c].requestAt = now]
      /\ UNCHANGED <<now, live_transcript_chunks, adviceRunState, env, harness>>

\* await generateModelAdvice(...) returns an advice.
ModelReturns(c, k, modelAdvice) ==
  LET t == tasks[c][k]
  IN  /\ t.pc = "model"
      /\ SetTask(c, k, [t EXCEPT !.pc = "modelWrite",
                                 !.modelTarget = modelAdvice.riskScore,
                                 !.modelAdvice = stabilizeAdvice(modelAdvice, t.heuristicAdvice)])
      /\ UNCHANGED <<now, live_calls, live_transcript_chunks, adviceRunState, env, hist,
                     harness>>

\* await generateModelAdvice(...) throws: the catch block up to its await.
ModelThrows(c, k, error) ==
  LET t == tasks[c][k]
      r == ModelFailed(adviceRunState[c], error, now)
      floor == IF error.retryAfterMs > RATE_LIMIT_BASE_BACKOFF_MS
                 THEN error.retryAfterMs ELSE RATE_LIMIT_BASE_BACKOFF_MS
  IN  /\ t.pc = "model"
      /\ SetState(c, r.state)
      /\ SetTask(c, k, [t EXCEPT !.pc = "fallback", !.lastError = r.lastError,
                                 !.errorStatus = IF error.isModelAdviceError
                                                   THEN error.statusCode ELSE 0])
      /\ hist' = [hist EXCEPT ![c].holdUntil =
                    IF error.isModelAdviceError /\ error.statusCode = 429
                      THEN now + floor ELSE @]
      /\ UNCHANGED <<now, live_calls, live_transcript_chunks, env, harness>>

\* await setLiveCallAdvice(stabilizedModelAdvice, ...): stored, or it throws
\* into the catch block (the error is no ModelAdviceError).
ModelWriteStep(c, k, ok) ==
  LET t == tasks[c][k]
      r == ModelFailed(adviceRunState[c],
                       [isModelAdviceError |-> FALSE, statusCode |-> 0, retryAfterMs |-> 0],
                       now)
  IN  /\ t.pc = "modelWrite"
      /\ IF ok
           THEN /\ live_calls' = setLiveCallAdvice(live_calls, c, t.modelAdvice,
                                                   Null, FALSE, now)
                /\ hist' = IF live_calls[c].exists
                             THEN [hist EXCEPT ![c] = Written(c, t.modelTarget)]
                             ELSE hist
                /\ SetState(c, ModelSucceeded(adviceRunState[c], now))
                /\ SetTask(c, k, [t EXCEPT !.pc = "loop"])
           ELSE /\ SetState(c, r.state)
                /\ SetTask(c, k, [t EXCEPT !.pc = "fallback", !.lastError = r.lastError,
                                           !.errorStatus = 0])
                /\ UNCHANGED <<live_calls, hist>>
      /\ UNCHANGED <<now, live_transcript_chunks, env, harness>>

\* await setLiveCallAdvice(heuristicAdvice, { lastError, ... }).catch(() => {})
FallbackWriteStep(c, k, ok) ==
  LET t == tasks[c][k]
  IN  /\ t.pc = "fallback"
      /\ IF ok /\ live_calls[c].exists
           THEN /\ live_calls' = setLiveCallAdvice(live_calls, c, t.heuristicAdvice,
                                                   t.lastError, FALSE, now)
                /\ hist' = [hist EXCEPT ![c] = Written(c, t.heuristicTarget)]
           ELSE UNCHANGED <<live_calls, hist>>
      /\ SetTask(c, k, [t EXCEPT !.pc = "loop"])
      /\ UNCHANGED <<now, live_transcript_chunks, adviceRunState, env, harness>>

\* Mutant: the loop has no try around the cycle; a throw ends the task with
\* the mailbox still marked running.
CatchStep_Uncaught(c, k, ok) ==
  /\ tasks[c][k].pc = "catch"
  /\ SetTask(c, k, IdleTask)
  /\ UNCHANGED <<now, live_calls, live_transcript_chunks, adviceRunState, env, hist, harness>>

\* processAdviceQueue's catch: await setLiveCallAnalyzing(false).catch(() => {})
CatchStep(c, k, ok) ==
  LET t == tasks[c][k]
  IN  /\ t.pc = "catch"
      /\ live_calls' = IF ok THEN setLiveCallAnalyzing(live_calls, c, FALSE) ELSE live_calls
      /\ SetTask(c, k, [t EXCEPT !.pc = "loop"])
      /\ UNCHANGED <<now, live_transcript_chunks, adviceRunState, env, hist, harness>>

\* Mutant: the finally block keeps the entry of a terminal call in the map.
LoopExited_KeepSlot(state) == [state EXCEPT !.running = FALSE]

\* The finally block of processAdviceQueue: the state it leaves in the map.
LoopExited(state) ==
  LET current == [state EXCEPT !.running = FALSE]
  IN  IF ~current.pending /\ current.terminal THEN NoState ELSE current

\* The loop test after a cycle: the next turn, or the finally block.
LoopStep(c, k) ==
  LET t == tasks[c][k]
      current == adviceRunState[c]
  IN  /\ t.pc = "loop"
      /\ IF current.pending
           THEN /\ SetState(c, LoopTurn(current))
                /\ SetTask(c, k, FirstTask(current.forceModel))
                /\ hist' = [hist EXCEPT ![c].owedForce = FALSE]
           ELSE /\ SetState(c, LoopExited(current))
                /\ SetTask(c, k, IdleTask)
                /\ UNCHANGED hist
      /\ UNCHANGED <<now, live_calls, live_transcript_chunks, env, harness>>

\* Time passes.
Tick(d) ==
  /\ now + d <= StartTime + MaxElapsed
  /\ now' = now + d
  /\ UNCHANGED <<live_calls, live_transcript_chunks, adviceRunState, tasks, env, hist, harness>>

----------------------------------------------------------------------------
(* The state after start-up, and the specifications *)

DefaultEnv ==
  [GROQ_API_KEY |-> TRUE, GROQ_MIN_INTERVAL_MS |-> 0, GROQ_RPM_LIMIT |-> 0,
   TWILIO_ACCOUNT_SID |-> "AC1", TWILIO_WEBHOOK_SKIP_SIGNATURE_VALIDATION |-> FALSE]

NoHarness == [applied |-> FALSE, previous |-> NoAdvice, next |-> NoAdvice, result |-> NoAdvice]

\* Empty tables, an empty map, no task.
InitState ==
  /\ now = StartTime
  /\ live_calls = [c \in CallIds |-> NoRow]
  /\ live_transcript_chunks = <<>>
  /\ adviceRunState = [c \in CallIds |-> NoState]
  /\ tasks = [c \in CallIds |-> [k \in TaskIds |-> IdleTask]]
  /\ hist = [c \in CallIds |-> NoHist]

InitEmpty == InitState /\ env = DefaultEnv

Init == InitEmpty /\ harness = NoHarness

\* The steps of task k of call c.  oks: the outcomes the awaited database
\* calls may have; advices, errors: what the model call may return or throw.
WorkerStep(c, k, oks, advices, errors) ==
  \/ \E ok \in oks : SummaryStep(c, k, ok)
  \/ \E ok \in oks : ChunksStep(c, k, ok)
  \/ \E ok \in oks : HeuristicWriteStep(c, k, ok)
  \/ \E ok \in oks : AnalyzingStep(c, k, ok)
  \/ \E a \in advices : ModelReturns(c, k, a)
  \/ \E e \in errors : ModelThrows(c, k, e)
  \/ \E ok \in oks : ModelWriteStep(c, k, ok)
  \/ \E ok \in oks : FallbackWriteStep(c, k, ok)
  \/ \E ok \in oks : CatchStep(c, k, ok)
  \/ LoopStep(c, k)

PlainModelAdvice == {[riskScore |-> 20, riskLevel |-> "low", confidence |-> 30]}
ModelErrors ==
  {[isModelAdviceError |-> TRUE, statusCode |-> 429, retryAfterMs |-> 0],
   [isModelAdviceError |-> TRUE, statusCode |-> 500, retryAfterMs |-> 0]}

\* Spec: two calls, each fed transcript events (partial and final), the
\* first also its terminal status; every database call succeeds and the
\* texts carry no risk pattern, so that the runs differ in their
\* interleaving only.
CallTranscripts(c) ==
  {Transcript(c, "TR1", "1", "other", "hello", f, StartTime) : f \in BOOLEAN}

Next ==
  \/ \E c \in CallIds : \E tr \in CallTranscripts(c) : POST(c, "case-a", Null, tr)
  \/ POST("CA1", "case-a", "completed", NoTranscript)
  \/ \E c \in CallIds, k \in TaskIds :
       \/ SummaryStep(c, k, TRUE)
       \/ ChunksStep(c, k, TRUE)
       \/ HeuristicWriteStep(c, k, TRUE)
       \/ AnalyzingStep(c, k, TRUE)
       \/ \E a \in PlainModelAdvice : ModelReturns(c, k, a)
       \/ ModelWriteStep(c, k, TRUE)
       \/ LoopStep(c, k)

Spec == Init /\ [][Next]_vars

\* SpecWorker: one call, with every outcome of every await of the cycle.
WorkerStatuses == {Null, "completed"}

NextWorker ==
  \/ \E st \in WorkerStatuses :
       \E tr \in {NoTranscript} \cup CallTranscripts("CA1") : POST("CA1", "case-a", st, tr)
  \/ \E k \in TaskIds : WorkerStep("CA1", k, BOOLEAN, PlainModelAdvice, ModelErrors)

SpecWorker == Init /\ [][NextWorker]_vars

\* SpecWorkerFair: every await of a running loop eventually settles.
SpecWorkerFair ==
  SpecWorker /\ WF_vars(\E k \in TaskIds :
                          WorkerStep("CA1", k, BOOLEAN, PlainModelAdvice, ModelErrors))

----------------------------------------------------------------------------
(* Properties *)

\* The tasks of call c that are inside runAdviceCycle.
CyclesRunning(c) == {k \in TaskIds : tasks[c][k].pc \in CyclePcs}

\* C1: for every call id at most one advice cycle (runAdviceCycle) is
\* executing at any time, whatever the interleaving of webhook enqueues with
\* the awaits of a cycle.
C1_OneCyclePerCall == \A c \in CallIds : Cardinality(CyclesRunning(c)) <= 1

\* C1, its case: cycles of two call ids overlap, and an enqueue has arrived
\* for one of them while its cycle runs.
C1_Witness ==
  /\ CyclesRunning("CA1") # {}
  /\ CyclesRunning("CA2") # {}
  /\ adviceRunState["CA1"].pending

\* C2: a force_model = true enqueue that arrives while the loop of its call
\* is running is never dropped.  Until the next cycle starts the mailbox
\* keeps pending and forceModel set; the next cycle that starts runs with
\* the force flag and leaves nothing pending (exactly one additional cycle);
\* and that cycle does start.
C2_ForceKept ==
  \A c \in CallIds :
    hist[c].owedForce =>
      /\ adviceRunState[c].running
      /\ adviceRunState[c].pending
      /\ adviceRunState[c].forceModel

C2_ForceServedStep ==
  \A c \in CallIds :
    hist[c].owedForce /\ ~hist'[c].owedForce =>
      /\ ~adviceRunState'[c].pending
      /\ \E k \in TaskIds :
           /\ tasks[c][k].pc = "loop"
           /\ tasks'[c][k].pc = "summary"
           /\ tasks'[c][k].forceModel

C2_ForcedEnqueueNeverDropped ==
  /\ []C2_ForceKept
  /\ [][C2_ForceServedStep]_vars
  /\ \A c \in CallIds :
       hist[c].owedForce ~>
         (~hist[c].owedForce /\ \E k \in TaskIds :
                                  tasks[c][k].pc = "summary" /\ tasks[c][k].forceModel)

\* C2, its case: a forced enqueue has arrived while the cycle is past its
\* model decision (the model call is in flight).
C2_Witness ==
  \E c \in CallIds, k \in TaskIds : hist[c].owedForce /\ tasks[c][k].pc = "model"


----------------------------------------------------------------------------
(* SpecBackoff: one call over a stretch of time.  The model call answers   *)
(* 429 with or without a Retry-After, or succeeds; the webhook delivers    *)
(* final transcripts and the terminal status.                              *)

RateLimitErrors ==
  {[isModelAdviceError |-> TRUE, statusCode |-> 429, retryAfterMs |-> r] : r \in {0, 8000}}

TickSteps == {3000}

NextBackoff ==
  \/ \E tr \in {Transcript("CA1", "TR1", "1", "other", "hello", TRUE, StartTime)} :
       POST("CA1", "case-a", Null, tr)
  \/ POST("CA1", "case-a", "completed", NoTranscript)
  \/ \E d \in TickSteps : Tick(d)
  \/ \E k \in TaskIds :
       \/ SummaryStep("CA1", k, TRUE)
       \/ ChunksStep("CA1", k, TRUE)
       \/ HeuristicWriteStep("CA1", k, TRUE)
       \/ AnalyzingStep("CA1", k, TRUE)
       \/ \E a \in PlainModelAdvice : ModelReturns("CA1", k, a)
       \/ \E e \in RateLimitErrors : ModelThrows("CA1", k, e)
       \/ ModelWriteStep("CA1", k, TRUE)
       \/ FallbackWriteStep("CA1", k, TRUE)
       \/ LoopStep("CA1", k)

SpecBackoff == Init /\ [][NextBackoff]_vars

\* C3: after a 429 with retry_after_ms = R observed at time t, no model
\* request is issued for that call before t + max(R, 6000): every step that
\* issues a model request is taken at or after the hold of the last 429.
C3_NoRequestBeforeHold ==
  [][\A c \in CallIds :
       (\E k \in TaskIds : tasks[c][k].pc = "analyzing" /\ tasks'[c][k].pc = "model")
         => now >= hist[c].holdUntil]_vars

----------------------------------------------------------------------------
(* SpecIngest: the webhook alone.  Events of two calls with every status   *)
(* order, repeated and fresh transcript keys, and repeats that differ in   *)
(* speaker, finality, timestamp and letter case.                           *)

IngestStatuses == {Null, "in-progress", "completed", "failed"}

\* The slug of the event: a case, another case, or none.
IngestSlugs == {"case-a", "case-b", Null}

\* The deliveries of one utterance: the partial result, the final result a
\* millisecond later, a redelivery under the other speaker label and in
\* another letter case, and a blank text (an event without transcript).
IngestDeliveries ==
  {[speaker |-> "other", text |-> "hello", isFinal |-> FALSE, delay |-> 0],
   [speaker |-> "other", text |-> "hello", isFinal |-> TRUE, delay |-> 1],
   [speaker |-> "caller", text |-> "Hello ", isFinal |-> TRUE, delay |-> 0],
   [speaker |-> "other", text |-> " ", isFinal |-> TRUE, delay |-> 0]}

IngestTranscripts(c) ==
  {Transcript(c, "TR1", seq, d.speaker, d.text, d.isFinal, StartTime + d.delay) :
     seq \in {"1", "2"}, d \in IngestDeliveries}

NextIngest ==
  \/ \E sl \in IngestSlugs, st \in IngestStatuses : POST("CA1", sl, st, NoTranscript)
  \/ \E c \in CallIds : \E tr \in IngestTranscripts(c) : POST(c, "case-a", Null, tr)

SpecIngest == Init /\ [][NextIngest]_vars

\* C4: once the stored status of a call is terminal (ended or failed), no
\* later webhook event changes it.
C4_TerminalStatusKept ==
  [][\A c \in CallIds :
       live_calls[c].exists /\ isTerminalStatus(live_calls[c].status)
         => live_calls'[c].status = live_calls[c].status]_vars

\* C5: the transcript store holds at most one row per
\* (call_sid, source_event_id).
C5_OneRowPerKey ==
  \A i, j \in 1..Len(live_transcript_chunks) :
    /\ live_transcript_chunks[i].call_sid = live_transcript_chunks[j].call_sid
    /\ live_transcript_chunks[i].source_event_id = live_transcript_chunks[j].source_event_id
    => i = j

\* C5, its case: an event repeated a stored key, and the table is full.
C5_Witness ==
  /\ \E c \in CallIds : hist[c].duplicate
  /\ Len(live_transcript_chunks) = MaxChunks

\* C6: an append whose (call_sid, source_event_id) is already stored leaves
\* the stored row as it is (speaker, text, is_final and timestamp): no
\* stored row ever changes.
C6_StoredRowUnchanged ==
  [][\A i \in 1..Len(live_transcript_chunks) :
       live_transcript_chunks'[i] = live_transcript_chunks[i]]_vars

----------------------------------------------------------------------------
(* SpecStabilize: stabilizeAdvice applied once to an advice and a previous *)
(* advice drawn from the whole score range.                                *)

Scores == 0..100
Confidences == {40, 55, 75}

InitStabilize ==
  /\ InitEmpty
  /\ \E p \in Scores, n \in Scores, conf \in Confidences :
       harness = [NoHarness EXCEPT
                    !.previous = [riskScore |-> p, riskLevel |-> getRiskLevel(p),
                                  confidence |-> 50],
                    !.next = [riskScore |-> n, riskLevel |-> getRiskLevel(n),
                              confidence |-> conf]]

Stabilize ==
  /\ ~harness.applied
  /\ harness' = [harness EXCEPT !.applied = TRUE,
                                !.result = stabilizeAdvice(harness.next, harness.previous)]
  /\ UNCHANGED <<now, live_calls, live_transcript_chunks, adviceRunState, tasks, env, hist>>

NextStabilize == Stabilize

SpecStabilize == InitStabilize /\ [][NextStabilize]_vars

\* C7: dead-zone.  For every previous score p and new raw score n with
\* |n - p| <= 3 the stabilized score equals p.
C7_DeadZone ==
  harness.applied /\ Abs(harness.next.riskScore - harness.previous.riskScore) <= 3
    => harness.result.riskScore = harness.previous.riskScore

\* The case of C9: previous score 25, raw score 90, confidence 0.4.
C9_Case ==
  /\ harness.applied
  /\ harness.previous.riskScore = 25
  /\ harness.next.riskScore = 90
  /\ harness.next.confidence = 40

\* C9 as stated: from a persisted score of 25, a raw score of 90 at
\* confidence 0.4 is stored as at most 35.
C9_AtMost35 == C9_Case => harness.result.riskScore <= 35

\* C9, amended: from a persisted score of 25, a raw score of 90 at
\* confidence 0.4 is stored as at most 47: the step crosses into the high
\* band (25 < 70 <= 90), so the cap is max(10, 22) = 22.
C9_AtMost47 == C9_Case => harness.result.riskScore <= 47

C9_Witness == C9_Case /\ harness.result.riskScore = 47

----------------------------------------------------------------------------
(* SpecScore: one call whose transcript gains a harmless and then a risky  *)
(* utterance.  The advice writes succeed or fail; the model answers with a *)
(* high or a low score, under a risk level that need not fit the score, or *)
(* fails.                                                                  *)

ScoreTranscripts ==
  {Transcript("CA1", "TR1", "1", "other", "hello", TRUE, StartTime),
   Transcript("CA1", "TR1", "2", "other",
              "This is urgent, buy gift cards and share your OTP", TRUE, StartTime)}

ScoreModelAdvice ==
  {[riskScore |-> 92, riskLevel |-> "low", confidence |-> 80],
   [riskScore |-> 22, riskLevel |-> "high", confidence |-> 40]}

ScoreModelErrors == {[isModelAdviceError |-> TRUE, statusCode |-> 500, retryAfterMs |-> 0]}

NextScore ==
  \/ \E tr \in ScoreTranscripts : POST("CA1", "case-a", Null, tr)
  \/ \E k \in TaskIds :
       \/ SummaryStep("CA1", k, TRUE)
       \/ ChunksStep("CA1", k, TRUE)
       \/ \E ok \in BOOLEAN : HeuristicWriteStep("CA1", k, ok)
       \/ AnalyzingStep("CA1", k, TRUE)
       \/ \E a \in ScoreModelAdvice : ModelReturns("CA1", k, a)
       \/ \E e \in ScoreModelErrors : ModelThrows("CA1", k, e)
       \/ \E ok \in BOOLEAN : ModelWriteStep("CA1", k, ok)
       \/ \E ok \in BOOLEAN : FallbackWriteStep("CA1", k, ok)
       \/ LoopStep("CA1", k)

SpecScore == Init /\ [][NextScore]_vars

\* C8: every pair of successive persisted scores (prev, next) of a call
\* satisfies |next - prev| <= cap, the cap being that of the applied
\* confidence, raised to max(cap, 22) when prev < 70 <= raw new score;
\* also when an intermediate write has failed.
C8_PersistedStepCapped ==
  \A c \in CallIds :
    hist[c].wrotePrev # -1 =>
      Abs(live_calls[c].advice.riskScore - hist[c].wrotePrev)
        <= maxStepFor(live_calls[c].advice.confidence, hist[c].wrotePrev, hist[c].wroteRaw)

\* The advices a snapshot read can return for call c.
SnapshotAdvices(c) ==
  {getLiveSessionSnapshot(live_calls, live_transcript_chunks, c, slug, 25).advice :
     slug \in {sl \in {"case-a", "case-b"} :
                 getLiveSessionSnapshot(live_calls, live_transcript_chunks, c, sl, 25).found}}

\* C10: every advice the worker has persisted, and every advice a snapshot
\* read returns, has the risk level of its score: low below 40, medium from
\* 40 to 69, high from 70.
C10_LevelOfScore ==
  \A c \in CallIds :
    /\ live_calls[c].exists /\ live_calls[c].last_advice_at # 0
         => live_calls[c].advice.riskLevel = getRiskLevel(live_calls[c].advice.riskScore)
    /\ \A a \in SnapshotAdvices(c) :
         a.riskLevel = (IF a.riskScore < 40 THEN "low"
                        ELSE IF a.riskScore <= 69 THEN "medium" ELSE "high")

\* C10, its case: a model advice that came labelled low is stored with a
\* score in the medium band, and the snapshot returns it.
C10_Witness ==
  /\ live_calls["CA1"].last_advice_at # 0
  /\ live_calls["CA1"].advice.riskScore >= 40
  /\ hist["CA1"].wroteRaw = 92
  /\ SnapshotAdvices("CA1") # {}

----------------------------------------------------------------------------
(* lib/live-coach.ts: the action queue of the stabilizer.  An action text  *)
(* is the sequence of its characters.                                      *)

MAX_NEXT_STEPS == 2

\* createDefaultAdvice().whatToDo
DefaultWhatToDo ==
  <<"D", "o", " ", "n", "o", "t", " ", "s", "h", "a", "r", "e", " ", "c",
    "o", "d", "e", "s", ",", " ", "a", "c", "c", "o", "u", "n", "t", " ",
    "l", "o", "g", "i", "n", "s", ",", " ", "o", "r", " ", "p", "a", "y",
    "m", "e", "n", "t", " ", "d", "e", "t", "a", "i", "l", "s", ".">>

IsSpace(ch) == ch \in {" ", "\t", "\n"}

\* value.replace(/\s+/g, ' ')
RECURSIVE collapseWhitespace(_)
collapseWhitespace(value) ==
  IF value = <<>> THEN <<>>
  ELSE LET rest == collapseWhitespace(Tail(value))
       IN  IF IsSpace(Head(value))
             THEN (IF Len(value) > 1 /\ IsSpace(value[2]) THEN rest ELSE <<" ">> \o rest)
             ELSE <<Head(value)>> \o rest

\* String.prototype.trim on a character sequence
RECURSIVE trimStart(_)
trimStart(value) ==
  IF value = <<>> THEN <<>>
  ELSE IF IsSpace(Head(value)) THEN trimStart(Tail(value)) ELSE value

RECURSIVE trimEnd(_)
trimEnd(value) ==
  IF value = <<>> THEN <<>>
  ELSE IF IsSpace(value[Len(value)]) THEN trimEnd(SubSeq(value, 1, Len(value) - 1))
  ELSE value

normalizeActionText(value) == trimEnd(trimStart(collapseWhitespace(value)))

\* String.prototype.toLowerCase on the letters the action texts use
lowerChar(ch) ==
  CASE ch = "A" -> "a"
    [] ch = "B" -> "b"
    [] ch = "D" -> "d"
    [] OTHER -> ch

actionKey(normalized) == [i \in 1..Len(normalized) |-> lowerChar(normalized[i])]

\* add(value) of buildActionQueue, on the pair of queue and seen.
addAction(acc, value) ==
  LET normalized == normalizeActionText(value)
      key == actionKey(normalized)
  IN  IF value = <<>> THEN acc
      ELSE IF normalized = <<>> THEN acc
      ELSE IF key \in acc.seen THEN acc
      ELSE [queue |-> Append(acc.queue, normalized), seen |-> acc.seen \cup {key}]

\* Mutant: add(value) tests the text itself, not its normalized key.
addAction_RawKey(acc, value) ==
  LET normalized == normalizeActionText(value)
  IN  IF value = <<>> THEN acc
      ELSE IF normalized = <<>> THEN acc
      ELSE IF value \in acc.seen THEN acc
      ELSE [queue |-> Append(acc.queue, normalized), seen |-> acc.seen \cup {value}]

RECURSIVE addActions(_, _)
addActions(acc, values) ==
  IF values = <<>> THEN acc
  ELSE addActions(addAction(acc, Head(values)), Tail(values))

RECURSIVE addActions_RawKey(_, _)
addActions_RawKey(acc, values) ==
  IF values = <<>> THEN acc
  ELSE addActions_RawKey(addAction_RawKey(acc, Head(values)), Tail(values))

\* Mutant: the steps of the new advice are offered before the previous advice.
actionCandidates_NextFirst(nextAdvice, previousAdvice) ==
  <<nextAdvice.whatToDo>>
    \o nextAdvice.nextSteps
    \o (IF previousAdvice.present
          THEN <<previousAdvice.whatToDo>> \o previousAdvice.nextSteps ELSE <<>>)

\* The order in which buildActionQueue offers the texts to add().
actionCandidates(nextAdvice, previousAdvice) ==
  <<nextAdvice.whatToDo>>
    \o (IF previousAdvice.present
          THEN <<previousAdvice.whatToDo>> \o previousAdvice.nextSteps ELSE <<>>)
    \o nextAdvice.nextSteps

\* Mutant: the queue is built without normalizing the keys.
buildActionQueue_RawKey(nextAdvice, previousAdvice) ==
  LET acc == addActions_RawKey([queue |-> <<>>, seen |-> {}],
                               actionCandidates(nextAdvice, previousAdvice))
      queue == IF Len(acc.queue) = 0 THEN <<DefaultWhatToDo>> ELSE acc.queue
  IN  SubSeq(queue, 1, IF Len(queue) < 3 THEN Len(queue) ELSE 3)

buildActionQueue(nextAdvice, previousAdvice) ==
  LET acc == addActions([queue |-> <<>>, seen |-> {}],
                        actionCandidates(nextAdvice, previousAdvice))
      queue == IF Len(acc.queue) = 0 THEN <<DefaultWhatToDo>> ELSE acc.queue
  IN  SubSeq(queue, 1, IF Len(queue) < 3 THEN Len(queue) ELSE 3)

\* stabilizeAdvice: the whatToDo and nextSteps of the advice it returns.
stabilizedActions(nextAdvice, previousAdvice) ==
  LET actionQueue == buildActionQueue(nextAdvice, previousAdvice)
  IN  [whatToDo |-> actionQueue[1],
       nextSteps |-> SubSeq(actionQueue, 2, IF Len(actionQueue) < 3 THEN Len(actionQueue) ELSE 3)]

(* SpecActions: stabilizedActions applied once to the actions of a new and *)
(* of a previous advice.                                                   *)

ActionTexts ==
  {<<"b">>, <<"A", " ">>, <<"a", " ", " ", "b">>, <<"A", "\t", "b">>, <<" ">>}

StepLists ==
  UNION {[1..n -> ActionTexts] : n \in 0..MAX_NEXT_STEPS}

NoActions == [present |-> FALSE, whatToDo |-> <<>>, nextSteps |-> <<>>]

InitActions ==
  /\ InitEmpty
  /\ \E nextDo \in ActionTexts, nextSteps \in StepLists :
       \E previous \in {NoActions} \cup
                       {[present |-> TRUE, whatToDo |-> d, nextSteps |-> st] :
                          d \in ActionTexts, st \in StepLists} :
         harness = [applied |-> FALSE,
                    previous |-> previous,
                    next |-> [present |-> TRUE, whatToDo |-> nextDo, nextSteps |-> nextSteps],
                    result |-> NoActions]

BuildActions ==
  /\ ~harness.applied
  /\ harness' = [harness EXCEPT
                   !.applied = TRUE,
                   !.result = [present |-> TRUE] @@
                              stabilizedActions(harness.next, harness.previous)]
  /\ UNCHANGED <<now, live_calls, live_transcript_chunks, adviceRunState, tasks, env, hist>>

NextActions == BuildActions

SpecActions == InitActions /\ [][NextActions]_vars

\* The entries of [what_to_do] ++ next_steps of the stabilized advice.
C11_Entries == <<harness.result.whatToDo>> \o harness.result.nextSteps

\* C11: in every advice the stabilizer produces, no two entries of
\* [what_to_do] ++ next_steps are equal after whitespace collapse, trim and
\* lower-casing; what_to_do is not empty and next_steps has at most 2
\* entries.
C11_ActionsUnique ==
  harness.applied =>
    /\ \A i, j \in 1..Len(C11_Entries) :
         actionKey(normalizeActionText(C11_Entries[i]))
           = actionKey(normalizeActionText(C11_Entries[j])) => i = j
    /\ normalizeActionText(harness.result.whatToDo) # <<>>
    /\ Len(harness.result.nextSteps) <= 2

\* C11, its case: the new and the previous advice name the same action in
\* different spacing and letter case, and the queue is still filled.
C11_Witness ==
  /\ harness.applied
  /\ harness.next.whatToDo = <<"a", " ", " ", "b">>
  /\ harness.previous.present
  /\ harness.previous.whatToDo = <<"A", "\t", "b">>
  /\ Len(harness.result.nextSteps) = 2

----------------------------------------------------------------------------
(* Frame of the webhook's session writes *)

\* A step of the webhook for call c: the row of c changes and no task of
\* c moves, except out of a free slot.
WebhookStep(c) ==
  /\ live_calls'[c] # live_calls[c]
  /\ \A k \in TaskIds : tasks'[c][k].pc = tasks[c][k].pc \/ tasks[c][k].pc = "idle"

\* C12: a webhook ingest never changes advice or analyzing, and changes
\* last_error only when the event puts the session into failed; an event
\* with another status leaves last_error as it is.
C12_IngestFrame ==
  [][\A c \in CallIds :
       WebhookStep(c) =>
         /\ live_calls'[c].advice = live_calls[c].advice
         /\ live_calls'[c].analyzing = live_calls[c].analyzing
         /\ live_calls'[c].last_error # live_calls[c].last_error
              => live_calls'[c].status = "failed"]_vars

\* C13: the slug of a session is immutable once set: no step changes the
\* slug of a row that exists, whatever slug a later event carries.
C13_SlugImmutable ==
  [][\A c \in CallIds :
       live_calls[c].exists => live_calls'[c].slug = live_calls[c].slug]_vars

\* C14: the stored analyzing flag is true only while a model call of the
\* call is in flight: whenever no cycle of the call is running (the last
\* one has exited, normally or by an exception), analyzing is false.
C14_AnalyzingOnlyInCycle ==
  \A c \in CallIds :
    (\A k \in TaskIds : tasks[c][k].pc \in {"idle", "loop"}) => ~live_calls[c].analyzing

----------------------------------------------------------------------------
(* SpecInterval: one call over a stretch of time, fed partial and final    *)
(* transcripts and the terminal status, under an environment with the      *)
(* default rate, with a lower rate limit, or without a model key.          *)

IntervalEnvs ==
  {DefaultEnv,
   [DefaultEnv EXCEPT !.GROQ_RPM_LIMIT = 20],
   [DefaultEnv EXCEPT !.GROQ_API_KEY = FALSE]}

InitInterval == InitState /\ harness = NoHarness /\ env \in IntervalEnvs

NextInterval ==
  \/ \E tr \in CallTranscripts("CA1") : POST("CA1", "case-a", Null, tr)
  \/ POST("CA1", "case-a", "completed", NoTranscript)
  \/ \E d \in TickSteps : Tick(d)
  \/ \E k \in TaskIds :
       \/ SummaryStep("CA1", k, TRUE)
       \/ ChunksStep("CA1", k, TRUE)
       \/ HeuristicWriteStep("CA1", k, TRUE)
       \/ AnalyzingStep("CA1", k, TRUE)
       \/ \E a \in PlainModelAdvice : ModelReturns("CA1", k, a)
       \/ \E e \in ModelErrors : ModelThrows("CA1", k, e)
       \/ ModelWriteStep("CA1", k, TRUE)
       \/ FallbackWriteStep("CA1", k, TRUE)
       \/ LoopStep("CA1", k)

SpecInterval == InitInterval /\ [][NextInterval]_vars

\* The minimum interval of the environment: the explicit one, or the one of
\* the rate limit plus the buffer, at least 2800 ms.
C15_MinInterval ==
  IF env.GROQ_MIN_INTERVAL_MS > 0 THEN env.GROQ_MIN_INTERVAL_MS
  ELSE IF env.GROQ_RPM_LIMIT = 20 THEN 3400 ELSE 2800

\* Task k of call c decides to run the model.
C15_Decides(c, k) == tasks[c][k].pc = "heuristic" /\ tasks'[c][k].pc = "analyzing"

\* Task k of call c issues the model request.
C15_Issues(c, k) == tasks[c][k].pc = "analyzing" /\ tasks'[c][k].pc = "model"

----------------------------------------------------------------------------
(* SpecStreak: the backoff state of one call under a series of model call  *)
(* outcomes (429 with and without Retry-After, another error, success),    *)
(* each some time after the one before.                                    *)

MaxOutcomes == 6

StreakGaps == {1000, 90000, 90001}

StreakErrors ==
  {[isModelAdviceError |-> TRUE, statusCode |-> 429, retryAfterMs |-> r] : r \in {0, 70000}}
    \cup {[isModelAdviceError |-> TRUE, statusCode |-> 500, retryAfterMs |-> 0],
          [isModelAdviceError |-> FALSE, statusCode |-> 0, retryAfterMs |-> 0]}

NoOutcome == [isModelAdviceError |-> FALSE, statusCode |-> 200, retryAfterMs |-> 0]

\* harness: the number of outcomes so far, the last one, and the number of
\* 429s in a row up to it, each at most 90 000 ms after the one before.
InitStreak ==
  /\ now = StartTime
  /\ live_calls = [c \in CallIds |-> NoRow]
  /\ live_transcript_chunks = <<>>
  /\ adviceRunState = [c \in CallIds |-> IF c = "CA1" THEN NewState ELSE NoState]
  /\ tasks = [c \in CallIds |-> [k \in TaskIds |-> IdleTask]]
  /\ hist = [c \in CallIds |-> NoHist]
  /\ env = DefaultEnv
  /\ harness = [outcomes |-> 0, error |-> NoOutcome, run |-> 0]

\* The model call of a cycle fails `gap` ms after the last outcome: the
\* catch block of runAdviceCycle.
ModelCallFails(error, gap) ==
  /\ harness.outcomes < MaxOutcomes
  /\ now' = now + gap
  /\ adviceRunState' = [adviceRunState EXCEPT
                          !["CA1"] = ModelFailed(adviceRunState["CA1"], error, now + gap).state]
  /\ harness' = [outcomes |-> harness.outcomes + 1,
                 error |-> error,
                 run |-> IF error.statusCode # 429 THEN 0
                         ELSE IF harness.run = 0 \/ gap > 90000 THEN 1
                         ELSE harness.run + 1]
  /\ UNCHANGED <<live_calls, live_transcript_chunks, tasks, env, hist>>

\* The model call of a cycle succeeds and its advice is stored.
ModelCallSucceeds(gap) ==
  /\ harness.outcomes < MaxOutcomes
  /\ now' = now + gap
  /\ adviceRunState' = [adviceRunState EXCEPT
                          !["CA1"] = ModelSucceeded(adviceRunState["CA1"], now + gap)]
  /\ harness' = [outcomes |-> harness.outcomes + 1, error |-> NoOutcome, run |-> 0]
  /\ UNCHANGED <<live_calls, live_transcript_chunks, tasks, env, hist>>

NextStreak ==
  \/ \E e \in StreakErrors, gap \in StreakGaps : ModelCallFails(e, gap)
  \/ \E gap \in StreakGaps : ModelCallSucceeds(gap)

SpecStreak == InitStreak /\ [][NextStreak]_vars

\* min(60 000, 6 000 * 2^(k-1))
C16_ExpBackoff(k) == IF 6000 * 2 ^ (k - 1) < 60000 THEN 6000 * 2 ^ (k - 1) ELSE 60000

C17_OtherFailureFrame ==
  [][harness'.error.statusCode \in {0, 500} =>
       /\ adviceRunState'["CA1"].modelCooldownUntil = adviceRunState["CA1"].modelCooldownUntil
       /\ adviceRunState'["CA1"].rateLimitStreak = adviceRunState["CA1"].rateLimitStreak
       /\ adviceRunState'["CA1"].lastRateLimitAt = adviceRunState["CA1"].lastRateLimitAt]_vars

\* Task k of call c ends a cycle whose model call or model write failed.
C18_FailedCycleEnds(c, k) == tasks[c][k].pc = "fallback" /\ tasks'[c][k].pc = "loop"

C19_NoteKeptDuringCooldown ==
  [][\A c \in CallIds, k \in TaskIds :
       /\ tasks[c][k].pc = "heuristic"
       /\ tasks'[c][k].pc # "heuristic"
       /\ live_calls[c].last_error = ADVICE_RATE_LIMITED_MESSAGE
       /\ now < adviceRunState[c].modelCooldownUntil
       => live_calls'[c].last_error = ADVICE_RATE_LIMITED_MESSAGE]_vars

----------------------------------------------------------------------------
\* Webhook requests and their responses.

\* Deployments: account configured with signatures checked, account
\* configured with validation skipped, nothing configured with validation
\* skipped, nothing configured at all.
WebhookEnvs ==
  {DefaultEnv,
   [DefaultEnv EXCEPT !.TWILIO_WEBHOOK_SKIP_SIGNATURE_VALIDATION = TRUE],
   [DefaultEnv EXCEPT !.TWILIO_ACCOUNT_SID = Null,
                      !.TWILIO_WEBHOOK_SKIP_SIGNATURE_VALIDATION = TRUE],
   [DefaultEnv EXCEPT !.TWILIO_ACCOUNT_SID = Null]}

WebhookTranscripts(callSid) ==
  IF callSid = Null THEN {NoTranscript}
  ELSE {NoTranscript, Transcript(callSid, "TR1", "1", "other", "hello", TRUE, StartTime)}

\* Events with a call id, in every combination of account, slugs, status
\* and transcript, and events without one.
WebhookEvents ==
  {[callSid |-> "CA1", accountSid |-> ac, querySlug |-> qs, bodySlug |-> bs,
    status |-> st, transcript |-> tr] :
     ac \in {Null, "AC1", "AC2"}, qs \in {"case-a", "Bad Slug", Null},
     bs \in {"case-b", Null}, st \in {Null, "in-progress", "completed"},
     tr \in WebhookTranscripts("CA1")}
  \cup
  {[callSid |-> Null, accountSid |-> ac, querySlug |-> qs, bodySlug |-> Null,
    status |-> Null, transcript |-> NoTranscript] :
     ac \in {Null, "AC1", "AC2"}, qs \in {"case-a", Null}}

Signed(event, signature) ==
  [signature |-> signature, callSid |-> event.callSid, accountSid |-> event.accountSid,
   querySlug |-> event.querySlug, bodySlug |-> event.bodySlug, status |-> event.status,
   transcript |-> event.transcript]

\* Every event with the signature of its request, and the events of the
\* URL ?slug=case-a without status and transcript with a missing or a
\* forged signature.
WebhookRequests ==
  {Signed(event, ValidSignature) : event \in WebhookEvents}
  \cup
  {Signed(event, sg) :
     event \in {e \in WebhookEvents : /\ e.querySlug = "case-a" /\ e.bodySlug = Null
                                      /\ e.status = Null /\ ~e.transcript.present},
     sg \in {Null, "forged"}}

NoRequest ==
  [signature |-> Null, callSid |-> Null, accountSid |-> Null, querySlug |-> Null,
   bodySlug |-> Null, status |-> Null, transcript |-> NoTranscript]

NoExchange == [request |-> NoRequest, fails |-> "none", response |-> NoResponse]

InitWebhook == InitState /\ env \in WebhookEnvs /\ harness = NoExchange

NextWebhook == \E request \in WebhookRequests : Webhook(request)

SpecWebhook == InitWebhook /\ [][NextWebhook]_vars

\* C20: whenever an account id is configured and the event of a webhook
\* request carries a different account id, the response is 401 and no
\* session row, transcript chunk or worker mailbox changes; with or
\* without a call id in the event.
C20_AccountMismatchRejected ==
  [][/\ env.TWILIO_ACCOUNT_SID # Null
     /\ harness'.request.accountSid # Null
     /\ harness'.request.accountSid # env.TWILIO_ACCOUNT_SID
     => /\ harness'.response.status = 401
        /\ UNCHANGED <<live_calls, live_transcript_chunks, adviceRunState, tasks>>]_vars

\* The request got past the configuration and signature checks, so that
\* its event was parsed.
EventParsed(request) ==
  \/ shouldSkipTwilioWebhookValidation
  \/ getTwilioConfig.present /\ isValidTwilioSignature(request.signature)

\* C21: a webhook event with no call id is answered 200 and is a no-op: no
\* session row, transcript chunk or worker mailbox is created or changed.
C21_NoCallIdNoOp ==
  [][/\ EventParsed(harness'.request)
     /\ harness'.request.callSid = Null
     => /\ harness'.response = JsonResponse(200, Null)
        /\ UNCHANGED <<live_calls, live_transcript_chunks, adviceRunState, tasks>>]_vars

\* C21, its case: an event without a call id was answered while a session
\* and a mailbox of a call exist.
C21_Witness ==
  /\ EventParsed(harness.request)
  /\ harness.request.callSid = Null
  /\ harness.request.accountSid = "AC2"
  /\ harness.response.status = 200
  /\ live_calls["CA1"].exists
  /\ adviceRunState["CA1"] # NoState

\* The request reached the slug resolution: its event has a call id and
\* passed the account comparison.
SlugNeeded(request) ==
  /\ EventParsed(request)
  /\ request.callSid # Null
  /\ EarlyResponse(request) = NoResponse

\* C22: the slug of an event is the query slug if present, else the
\* body's slug field, else the slug of the existing session; the event is
\* answered 400, with nothing written or enqueued, exactly when all three
\* are absent, and is otherwise stored under the slug so resolved.  A slug
\* is present when it is a well-formed slug.
C22_ResolvedSlug(request) ==
  IF isValidSlug(request.querySlug) THEN request.querySlug
  ELSE IF isValidSlug(request.bodySlug) THEN request.bodySlug
  ELSE getLiveCallSummary(live_calls, request.callSid).slug

C22_SlugResolution ==
  [][SlugNeeded(harness'.request) =>
       LET request == harness'.request
           slug == C22_ResolvedSlug(request)
       IN  IF slug = Null
             THEN /\ harness'.response.status = 400
                  /\ UNCHANGED <<live_calls, live_transcript_chunks, adviceRunState, tasks>>
             ELSE /\ harness'.response.status = 200
                  /\ live_calls'[request.callSid].slug = slug]_vars

\* The request was accepted: its event has a call id, its slug was
\* resolved and the writes succeeded.
Accepted(exchange) ==
  /\ exchange.request.callSid # Null
  /\ exchange.response.status = 200

\* The step put advice work for call c in the mailbox with the flag
\* `force`: a running worker finds pending set, an idle one starts a cycle.
C23_Enqueued(c, force) ==
  LET before == adviceRunState[c]
      after == adviceRunState'[c]
  IN  /\ after.exists /\ after.running
      /\ IF before.running
           THEN after.pending /\ after.forceModel = (before.forceModel \/ force)
           ELSE \E k \in TaskIds :
                  /\ tasks[c][k].pc = "idle"
                  /\ tasks'[c][k].pc = "summary"
                  /\ tasks'[c][k].forceModel = (before.forceModel \/ force)

\* C23: every accepted webhook event enqueues advice work for its call id,
\* with force_model = (its transcript is final) or (its status is terminal).
C23_AcceptedEnqueues ==
  [][Accepted(harness') =>
       LET request == harness'.request
       IN  C23_Enqueued(request.callSid,
                        \/ request.transcript.present /\ request.transcript.isFinal
                        \/ isTerminalStatus(normalizeSessionStatus(request.status)))]_vars

\* The last request carried the terminal CallStatus completed, was answered
\* 200 and was stored under `slug`.
C25_TerminalAcked(slug) ==
  /\ Accepted(harness)
  /\ harness.request.status = "completed"
  /\ live_calls[harness.request.callSid].slug = slug

C25_ReportsEnded(slug) ==
  LET snapshot == getLiveSessionSnapshot(live_calls, live_transcript_chunks, "CA1", slug,
                                         ADVICE_TRANSCRIPT_LIMIT)
  IN  snapshot.found /\ snapshot.status = "ended"

\* C25: after a webhook with the terminal CallStatus completed has been
\* answered 200, every later snapshot read for that call id and slug
\* reports the status ended: in particular the read after the next event,
\* when that event leaves the session under the same slug.
C25_TerminalStatusReported ==
  [][\A slug \in {"case-a", "case-b"} :
       C25_TerminalAcked(slug) /\ live_calls'["CA1"].slug = slug
         => C25_ReportsEnded(slug)']_vars

----------------------------------------------------------------------------
\* Webhook requests during which a database call may fail.

PersistRequests ==
  {r \in WebhookRequests :
     /\ r.signature = ValidSignature /\ r.callSid # Null /\ r.accountSid = Null
     /\ r.querySlug # "Bad Slug" /\ r.bodySlug = Null}

NextPersist ==
  \E request \in PersistRequests, fails \in DatabaseCalls \cup {"none"} : Deliver(request, fails)

InitPersist == InitState /\ env = DefaultEnv /\ harness = NoExchange

SpecPersist == InitPersist /\ [][NextPersist]_vars

\* One of the writes of the event failed: the session upsert, the status
\* write of an event with a status, or the chunk append of an event with a
\* transcript.
C24_WriteFailed(request, fails) ==
  /\ ResolveSlug(request.callSid, EventSlug(request)) # Null
  /\ \/ fails = "upsert"
     \/ fails = "status" /\ request.status # Null
     \/ fails = "append" /\ request.transcript.present

\* C24: the webhook answers 200 only after the session upsert, the status
\* write and the chunk append of the event have all succeeded (the rows
\* are in the tables when it answers); if one of them fails it answers 500
\* and enqueues no advice work for the event.
C24_AckAfterPersistence ==
  [][harness'.request.callSid # Null =>
       LET request == harness'.request
           c == request.callSid
           slug == ResolveSlug(c, EventSlug(request))
       IN  /\ C24_WriteFailed(request, harness'.fails) =>
                /\ harness'.response.status = 500
                /\ UNCHANGED <<adviceRunState, tasks>>
           /\ harness'.response.status = 200 =>
                /\ ~C24_WriteFailed(request, harness'.fails)
                /\ live_calls' = IngestSession(live_calls, c, slug, request.status)
                /\ live_transcript_chunks' =
                     IngestChunks(live_transcript_chunks, c, request.transcript)]_vars

\* C24, its case: the append of an event with a terminal status and a
\* transcript failed after its status was written; the answer was 500 and
\* the call has no mailbox.
C24_Witness ==
  /\ harness.fails = "append"
  /\ harness.request.transcript.present
  /\ harness.response.status = 500
  /\ live_calls["CA1"].status = "ended"
  /\ adviceRunState["CA1"] = NoState

----------------------------------------------------------------------------
\* The flow of one call from its transcript events to the snapshot: with
\* and without a model, every database call succeeds, and every await of a
\* running loop eventually settles.

FlowEnvs == {DefaultEnv, [DefaultEnv EXCEPT !.GROQ_API_KEY = FALSE]}

FlowHighText == "This is urgent, buy gift cards and share your OTP"

FlowTranscripts ==
  {Transcript("CA1", "TR1", "1", "other", "hello", TRUE, StartTime)}
  \cup {Transcript("CA1", "TR1", "2", "other", FlowHighText, f, StartTime) : f \in BOOLEAN}

InitFlow == InitState /\ harness = NoHarness /\ env \in FlowEnvs

\* The worker steps but the transcript read.
FlowOtherSteps ==
  \E k \in TaskIds :
    \/ SummaryStep("CA1", k, TRUE)
    \/ HeuristicWriteStep("CA1", k, TRUE)
    \/ AnalyzingStep("CA1", k, TRUE)
    \/ \E a \in ScoreModelAdvice : ModelReturns("CA1", k, a)
    \/ \E e \in ScoreModelErrors : ModelThrows("CA1", k, e)
    \/ ModelWriteStep("CA1", k, TRUE)
    \/ FallbackWriteStep("CA1", k, TRUE)
    \/ LoopStep("CA1", k)

FlowWorkerStep ==
  \/ \E k \in TaskIds : ChunksStep("CA1", k, TRUE)
  \/ FlowOtherSteps

NextFlow ==
  \/ \E tr \in FlowTranscripts : POST("CA1", "case-a", Null, tr)
  \/ FlowWorkerStep

\* A worker step is enabled exactly when a task of the call is inside the
\* loop, and it is the step that moves such a task.
FlowBusy == \E k \in TaskIds : tasks["CA1"][k].pc # "idle"

FlowSettles ==
  \E k \in TaskIds : tasks["CA1"][k].pc # "idle" /\ tasks'["CA1"][k] # tasks["CA1"][k]

\* The transcript read is enabled exactly when a task awaits it, and it is
\* the step that moves such a task.
FlowReading == \E k \in TaskIds : tasks["CA1"][k].pc = "chunks"

FlowReads ==
  \E k \in TaskIds : tasks["CA1"][k].pc = "chunks" /\ tasks'["CA1"][k] # tasks["CA1"][k]

\* SpecFlow: every awaited step of the worker completes.  Weak fairness of
\* the transcript read is written with FlowReading for its ENABLED and
\* FlowReads for the step.
SpecFlow ==
  /\ InitFlow /\ [][NextFlow]_vars
  /\ WF_vars(FlowOtherSteps)
  /\ ([]<>~FlowReading \/ []<><<FlowReads>>_vars)

\* The chunks of CA1 that match a HIGH pattern.
C26_HighChunks ==
  {i \in 1..Len(live_transcript_chunks) :
     /\ live_transcript_chunks[i].call_sid = "CA1"
     /\ HighRiskMatches(toLowerCase(live_transcript_chunks[i].text)) # {}}

C26_Ingested ==
  Cardinality(UNION {HighRiskMatches(toLowerCase(live_transcript_chunks[i].text)) :
                       i \in C26_HighChunks}) >= 2

C26_Shown ==
  LET snapshot == getLiveSessionSnapshot(live_calls, live_transcript_chunks, "CA1", "case-a",
                                         ADVICE_TRANSCRIPT_LIMIT)
  IN  /\ snapshot.found
      /\ \A i \in C26_HighChunks :
           \E j \in 1..Len(snapshot.transcript) :
             snapshot.transcript[j].id = live_transcript_chunks[i].id
      /\ snapshot.advice.riskScore >= 40

\* C26: for a call with no persisted advice, once transcript chunks that
\* match at least two HIGH patterns have been ingested, the snapshot
\* eventually shows those chunks and a riskScore of at least 40, with or
\* without a model and whatever the order in which the events are processed.
C26_HighRiskShown ==
  [](C26_Ingested /\ live_calls["CA1"].last_advice_at = 0 => <>C26_Shown)

----------------------------------------------------------------------------
(* lib/rate-limit.ts: the per-key window limiter and the per-key cooldown, *)
(* as api/call uses them.  harness holds the limiter's state, the value    *)
(* the last call returned and, per key, the times of the calls that        *)
(* succeeded.                                                              *)

PRUNE_INTERVAL_MS == 60000
CALL_LIMIT == 5
CALL_WINDOW_MS == 60000
CALL_COOLDOWN_MS == 30000

MaxWait == 75000  \* milliseconds the limiter's clock may advance in one run

LimiterKeys == {"call:ip:1", "call:slug:case-a", "call:slug:case-b"}
WindowKeys == {"call:ip:1"}
CooldownKeys == {"call:slug:case-a", "call:slug:case-b"}

NoBucket == [present |-> FALSE, count |-> 0, resetAt |-> 0]
NoCooldown == [present |-> FALSE, readyAt |-> 0]

\* globalThis.__demoRateLimitState before the first call.
NoRateLimitState ==
  [created |-> FALSE,
   buckets |-> [key \in LimiterKeys |-> NoBucket],
   cooldowns |-> [key \in LimiterKeys |-> NoCooldown],
   lastPruneAt |-> 0]

getState(state, at) ==
  IF state.created THEN state
  ELSE [NoRateLimitState EXCEPT !.created = TRUE, !.lastPruneAt = at]

pruneExpired(state, at) ==
  IF at - state.lastPruneAt < PRUNE_INTERVAL_MS THEN state
  ELSE [state EXCEPT
          !.buckets = [key \in LimiterKeys |->
                         IF @[key].present /\ @[key].resetAt <= at THEN NoBucket ELSE @[key]],
          !.cooldowns = [key \in LimiterKeys |->
                           IF @[key].present /\ @[key].readyAt <= at THEN NoCooldown
                           ELSE @[key]],
          !.lastPruneAt = at]

\* takeRateLimit at time `at`: the state it leaves and the value it returns.
takeRateLimit(before, key, limit, windowMs, at) ==
  LET state == pruneExpired(getState(before, at), at)
      bucket == state.buckets[key]
  IN  IF ~bucket.present \/ bucket.resetAt <= at
        THEN [state |-> [state EXCEPT !.buckets[key] =
                           [present |-> TRUE, count |-> 1, resetAt |-> at + windowMs]],
              result |-> TRUE]
      ELSE IF bucket.count >= limit
        THEN [state |-> state, result |-> FALSE]
      ELSE [state |-> [state EXCEPT !.buckets[key].count = @ + 1], result |-> TRUE]

\* Math.ceil(ms / 1000) for ms > 0
CeilSeconds(ms) == (ms + 999) \div 1000

\* A variant that rounds the remaining time down to whole seconds.
takeCooldown_RoundDown(before, key, cooldownMs, at) ==
  LET state == pruneExpired(getState(before, at), at)
      readyAt == IF state.cooldowns[key].present THEN state.cooldowns[key].readyAt ELSE 0
  IN  IF readyAt > at
        THEN [state |-> state, result |-> (readyAt - at) \div 1000]
      ELSE [state |-> [state EXCEPT !.cooldowns[key] =
                         [present |-> TRUE, readyAt |-> at + cooldownMs]],
            result |-> 0]

\* takeCooldown at time `at`: the state it leaves and the seconds it returns.
takeCooldown(before, key, cooldownMs, at) ==
  LET state == pruneExpired(getState(before, at), at)
      readyAt == IF state.cooldowns[key].present THEN state.cooldowns[key].readyAt ELSE 0
  IN  IF readyAt > at
        THEN [state |-> state, result |-> CeilSeconds(readyAt - at)]
      ELSE [state |-> [state EXCEPT !.cooldowns[key] =
                         [present |-> TRUE, readyAt |-> at + cooldownMs]],
            result |-> 0]

\* The times in `times` that lie in the interval (at - windowMs, at].
Within(times, windowMs, at) == SelectSeq(times, LAMBDA t : t > at - windowMs)

NoLimiter ==
  [state |-> NoRateLimitState, key |-> Null, allowed |-> FALSE, seconds |-> 0,
   taken |-> [key \in LimiterKeys |-> <<>>]]

InitLimiter == InitState /\ env = DefaultEnv /\ harness = NoLimiter

\* api/call POST: takeRateLimit(`call:ip:${ip}`, 5, 60_000)
TakeRateLimit(key) ==
  LET call == takeRateLimit(harness.state, key, CALL_LIMIT, CALL_WINDOW_MS, now)
      recent == Within(harness.taken[key], CALL_WINDOW_MS, now)
  IN  /\ harness' = [harness EXCEPT
                       !.state = call.state, !.key = key, !.allowed = call.result,
                       !.taken[key] = IF call.result THEN Append(recent, now) ELSE recent]
      /\ UNCHANGED <<now, live_calls, live_transcript_chunks, adviceRunState, tasks, env, hist>>

\* api/call POST: takeCooldown(`call:slug:${slug}`, 30_000)
TakeCooldown(key) ==
  LET call == takeCooldown(harness.state, key, CALL_COOLDOWN_MS, now)
  IN  /\ harness' = [harness EXCEPT
                       !.state = call.state, !.key = key, !.seconds = call.result,
                       !.allowed = (call.result = 0),
                       !.taken[key] = IF call.result = 0 THEN <<now>> ELSE @]
      /\ UNCHANGED <<now, live_calls, live_transcript_chunks, adviceRunState, tasks, env, hist>>

\* Time passes between two calls of the limiter.
LimiterSteps == {15000, 29999}

Wait(d) ==
  /\ now + d <= StartTime + MaxWait
  /\ now' = now + d
  /\ UNCHANGED <<live_calls, live_transcript_chunks, adviceRunState, tasks, env, hist, harness>>

NextWindow ==
  \/ \E key \in WindowKeys : TakeRateLimit(key)
  \/ \E d \in LimiterSteps : Wait(d)

SpecWindow == InitLimiter /\ [][NextWindow]_vars

\* C27: sliding window: for every key, in any time interval of length
\* window_ms at most `limit` calls of take(key, limit, window_ms) return
\* true (call initiation: at most 5 per IP in any 60 s).
C27_SlidingWindow ==
  \A key \in WindowKeys :
    Len(Within(harness.taken[key], CALL_WINDOW_MS, now)) <= CALL_LIMIT

NextCooldown ==
  \/ \E key \in CooldownKeys : TakeCooldown(key)
  \/ \E d \in LimiterSteps : Wait(d)

SpecCooldown == InitLimiter /\ [][NextCooldown]_vars

\* The deadline of the cooldown of `key` in the limiter state `state` (0: none).
C28_Deadline(state, key) ==
  IF state.cooldowns[key].present THEN state.cooldowns[key].readyAt ELSE 0

\* C28: take_cooldown(key, cooldown_ms) returns 0 and arms the cooldown
\* only when no cooldown is active for the key; otherwise it returns the
\* remaining time in whole seconds (> 0) and leaves the deadline unchanged;
\* hence two successful takes for one key are at least cooldown_ms apart.
C28_CooldownTake ==
  [][\A key \in CooldownKeys :
       harness'.key = key /\ now' = now =>
         LET deadline == C28_Deadline(harness.state, key)
             after == C28_Deadline(harness'.state, key)
         IN  /\ IF deadline > now
                  THEN /\ harness'.seconds > 0
                       /\ (harness'.seconds - 1) * 1000 < deadline - now
                       /\ deadline - now <= harness'.seconds * 1000
                       /\ after = deadline
                       /\ harness'.taken[key] = harness.taken[key]
                  ELSE /\ harness'.seconds = 0
                       /\ after = now + CALL_COOLDOWN_MS
                       /\ harness'.taken[key] = <<now>>
             /\ harness'.seconds = 0 /\ harness.taken[key] # <<>> =>
                  now - harness.taken[key][1] >= CALL_COOLDOWN_MS
             /\ \A other \in CooldownKeys \ {key} :
                  /\ C28_Deadline(harness'.state, other) > now =>
                       C28_Deadline(harness'.state, other) = C28_Deadline(harness.state, other)
                  /\ harness'.taken[other] = harness.taken[other]]_vars

\* C28, its case: a take was refused with one second left of a cooldown
\* armed 29 999 ms earlier, while the other key had been taken again.
C28_Witness ==
  /\ harness.key = "call:slug:case-a"
  /\ harness.seconds = 1
  /\ harness.taken["call:slug:case-a"] = <<now - 29999>>
  /\ harness.taken["call:slug:case-b"] # <<>>
  /\ now >= StartTime + 44999

\* ---------------------------------------------------------------------------
\* Signature validation of a webhook request (src/lib/twilio-webhook.ts).
\* ---------------------------------------------------------------------------

\* The auth token of the Twilio configuration and a token it differs from.
AuthToken == "auth-token"

OtherToken == "guessed-token"

JsonBodies == {"{\"CallSid\":\"CA1\"}", "{\"CallSid\":\"CA2\"}"}

FormBodies == {"CallSid=CA1"}

\* The fields of a body: both JSON bodies differ in the call id they carry.
BodyFields(rawBody) ==
  CASE rawBody = "{\"CallSid\":\"CA1\"}" -> {<<"CallSid", "CA1">>}
    [] rawBody = "{\"CallSid\":\"CA2\"}" -> {<<"CallSid", "CA2">>}
    [] rawBody = "CallSid=CA1" -> {<<"CallSid", "CA1">>}
    [] OTHER -> {}

\* A body is read as JSON when the content type says so or when it starts
\* with a brace or a bracket.
parseTwilioWebhookBody(rawBody, contentType) ==
  [bodyParams |-> BodyFields(rawBody),
   isJson |-> contentType = "application/json" \/ rawBody \in JsonBodies]

\* HMAC-SHA1 under the token of the URL followed by the sorted parameters,
\* taken collision-free: equal digests have equal tokens and payloads.
computeTwilioSignature(authToken, url, params) ==
  [key |-> authToken, url |-> url, params |-> params]

\* SHA-256 in hexadecimal, taken collision-free.
computeSha256Hex(value) == "sha256:" \o value

getBodyShaFromUrl(url) == url.bodySHA256

safeEqual(a, b) == a = b

\* The body hash is compared only when the URL carries one; the signature is
\* computed on the URL with no parameters.
isValidJsonSignatureCandidate(authToken, signature, url, rawBody) ==
  LET bodySha == getBodyShaFromUrl(url)
  IN  IF bodySha # Null /\ ~safeEqual(computeSha256Hex(rawBody), bodySha)
      THEN FALSE
      ELSE safeEqual(computeTwilioSignature(authToken, url, {}), signature)

\* The request URL, and the URL with the forwarded host in place of its own.
buildTwilioUrlCandidates(requestUrl, forwardedHost) ==
  {requestUrl,
   IF forwardedHost # Null THEN [requestUrl EXCEPT !.host = forwardedHost] ELSE requestUrl}

validSignature(authToken, signature, urlCandidates, bodyParams, rawBody, isJsonBody) ==
  IF isJsonBody
  THEN \E candidate \in urlCandidates :
         isValidJsonSignatureCandidate(authToken, signature, candidate, rawBody)
  ELSE \E candidate \in urlCandidates :
         safeEqual(computeTwilioSignature(authToken, candidate, bodyParams), signature)

\* Request URLs: the webhook path on the application's host or on the host a
\* proxy forwards, with or without a bodySHA256 parameter.
SignedUrls ==
  [host : {"app.example", "edge.example"},
   bodySHA256 : {Null, computeSha256Hex("{\"CallSid\":\"CA1\"}")}]

\* Signature headers: what the holder of the auth token computes for a URL
\* with no parameters or with the form's parameters, and one digest under
\* another token.
SignatureHeaders ==
  {computeTwilioSignature(AuthToken, url, params) :
     url \in SignedUrls, params \in {{}, BodyFields("CallSid=CA1")}}
  \cup {computeTwilioSignature(OtherToken, [host |-> "app.example", bodySHA256 |-> Null], {})}

ContentTypeOf(rawBody) ==
  IF rawBody \in JsonBodies THEN "application/json" ELSE "application/x-www-form-urlencoded"

SignedRequests ==
  [rawBody : JsonBodies \cup FormBodies,
   url : {url \in SignedUrls : url.host = "app.example"},
   forwardedHost : {Null, "edge.example"},
   signature : SignatureHeaders]

NoSignedRequest ==
  [rawBody |-> Null, url |-> [host |-> Null, bodySHA256 |-> Null], forwardedHost |-> Null,
   signature |-> computeTwilioSignature(Null, [host |-> Null, bodySHA256 |-> Null], {})]

NoValidation == [request |-> NoSignedRequest, isJson |-> FALSE, accepted |-> FALSE]

\* The signature check of the webhook route on one request; the harness keeps
\* the two most recent checks.
Validate(request) ==
  LET parsedBody == parseTwilioWebhookBody(request.rawBody, ContentTypeOf(request.rawBody))
      urlCandidates == buildTwilioUrlCandidates(request.url, request.forwardedHost)
      accepted == validSignature(AuthToken, request.signature, urlCandidates,
                                 parsedBody.bodyParams, request.rawBody, parsedBody.isJson)
  IN  /\ harness' = [previous |-> harness.last,
                     last |-> [request |-> request, isJson |-> parsedBody.isJson,
                               accepted |-> accepted]]
      /\ UNCHANGED <<now, live_calls, live_transcript_chunks, adviceRunState, tasks, env, hist>>

InitSignature ==
  /\ InitState
  /\ env = DefaultEnv
  /\ harness = [previous |-> NoValidation, last |-> NoValidation]

NextSignature == \E request \in SignedRequests : Validate(request)

SpecSignature == InitSignature /\ [][NextSignature]_vars

\* The body of an accepted JSON request is bound by the URL's bodySHA256
\* parameter and the signature is the one of a candidate URL.
C29_BodyBound(check) ==
  LET request == check.request
  IN  check.isJson /\ check.accepted =>
        /\ \E candidate \in buildTwilioUrlCandidates(request.url, request.forwardedHost) :
             /\ candidate.bodySHA256 # Null
             /\ candidate.bodySHA256 = computeSha256Hex(request.rawBody)
             /\ request.signature = computeTwilioSignature(AuthToken, candidate, {})

\* Two accepted JSON requests that differ in their body and in nothing else.
C29_SameEnvelope(first, second) ==
  /\ first.isJson /\ first.accepted
  /\ second.isJson /\ second.accepted
  /\ first.request.rawBody # second.request.rawBody
  /\ first.request.url = second.request.url
  /\ first.request.forwardedHost = second.request.forwardedHost
  /\ first.request.signature = second.request.signature

\* C29: with signature validation enabled, a JSON webhook is accepted only if
\* its URL carries a bodySHA256 parameter equal to the SHA-256 of the raw body
\* and the signature matches the URL, so two JSON requests that differ only in
\* their body are never both accepted with the same URL and signature.
C29_JsonBodyAuthenticated ==
  /\ C29_BodyBound(harness.last)
  /\ ~C29_SameEnvelope(harness.previous, harness.last)

----------------------------------------------------------------------------
\* The snapshot endpoint (src/app/api/call/live/route.ts) beside the webhook.

DEFAULT_TRANSCRIPT_LIMIT == 200

MAX_TRANSCRIPT_LIMIT == 500

\* raw: Number.parseInt of LIVE_TRANSCRIPT_LIMIT, 0 when the variable is
\* unset or is not a number.
getTranscriptLimit(raw) ==
  IF raw < 1 THEN DEFAULT_TRANSCRIPT_LIMIT
  ELSE IF raw < MAX_TRANSCRIPT_LIMIT THEN raw ELSE MAX_TRANSCRIPT_LIMIT

\* Settings of LIVE_TRANSCRIPT_LIMIT: unset, one row, two rows, above the cap.
TranscriptLimitSettings == {0, 1, 2, 600}

NoRead ==
  [read |-> FALSE, callId |-> Null, slug |-> Null, limit |-> 0, status |-> 0,
   session |-> NoSnapshot]

\* GET /api/call/live?callId=&slug= under the limit setting `raw`.
GET(callId, slug, raw) ==
  LET limit == getTranscriptLimit(raw)
      Answer(status, session) ==
        harness' = [read |-> TRUE, callId |-> callId, slug |-> slug, limit |-> limit,
                    status |-> status, session |-> session]
  IN  /\ IF callId = Null \/ slug = Null THEN Answer(400, NoSnapshot)
         ELSE LET session == getLiveSessionSnapshot(live_calls, live_transcript_chunks,
                                                    callId, slug, limit)
              IN  IF ~session.found THEN Answer(404, NoSnapshot) ELSE Answer(200, session)
      /\ UNCHANGED <<now, live_calls, live_transcript_chunks, adviceRunState, tasks, env, hist>>

\* The deliveries of an utterance: the partial result, then the final one.
SnapshotDeliveries ==
  {[speaker |-> "other", text |-> "hel", isFinal |-> FALSE],
   [speaker |-> "other", text |-> "hello", isFinal |-> TRUE]}

\* Two utterances of a call; the second call delivers final results only.
SnapshotTranscripts(c) ==
  {Transcript(c, "TR1", seq, d.speaker, d.text, d.isFinal, StartTime) :
     seq \in {"1", "2"}, d \in {e \in SnapshotDeliveries : c = "CA1" \/ e.isFinal}}

\* A webhook event; the answer of an earlier read is no longer looked at.
SnapshotPost(c, eventSlug, transcript) ==
  /\ HandleEvent(c, eventSlug, Null, transcript)
  /\ harness' = NoRead

InitSnapshot == InitState /\ env = DefaultEnv /\ harness = NoRead

NextSnapshot ==
  \/ \E sl \in {"case-a", "case-b"} : SnapshotPost("CA1", sl, NoTranscript)
  \/ \E c \in CallIds : \E tr \in SnapshotTranscripts(c) : SnapshotPost(c, "case-a", tr)
  \/ \E c \in CallIds \cup {Null}, sl \in {"case-a", "case-b", Null} :
       \E raw \in TranscriptLimitSettings : GET(c, sl, raw)

SpecSnapshot == InitSnapshot /\ [][NextSnapshot]_vars

\* The stored rows of a call, and the row under an id.
C30_RowsOfCall(callId) ==
  {i \in 1..Len(live_transcript_chunks) : live_transcript_chunks[i].call_sid = callId}

C30_Shown(callId, transcript) ==
  LET mine == C30_RowsOfCall(callId)
      ids == {live_transcript_chunks[i].id : i \in mine}
      shown == {transcript[i].id : i \in 1..Len(transcript)}
      count == Cardinality(mine)
  IN  /\ Len(transcript) = IF harness.limit < count THEN harness.limit ELSE count
      /\ shown \subseteq ids
      /\ \A older \in ids \ shown : \A id \in shown : older < id
      /\ \A i, j \in 1..Len(transcript) : i < j => transcript[i].id < transcript[j].id
      /\ \A i \in 1..Len(transcript) : \E r \in mine :
           /\ live_transcript_chunks[r].id = transcript[i].id
           /\ live_transcript_chunks[r].text = transcript[i].text
           /\ live_transcript_chunks[r].is_final = transcript[i].isFinal

\* C30: the snapshot read returns not-found (404) when no session row exists
\* for the call id or the row's slug differs from the requested slug;
\* otherwise its transcript is the last min(limit, count) chunks of that call
\* by insertion id, oldest first.
C30_SnapshotRead ==
  harness.read /\ harness.callId # Null /\ harness.slug # Null =>
    IF ~live_calls[harness.callId].exists \/ live_calls[harness.callId].slug # harness.slug
    THEN harness.status = 404 /\ harness.session = NoSnapshot
    ELSE /\ harness.status = 200
         /\ harness.session.found
         /\ C30_Shown(harness.callId, harness.session.transcript)

\* A read under limit 1 of a call with two rows: the newer row is shown.
C30_Witness ==
  /\ harness.read
  /\ harness.callId = "CA1"
  /\ harness.limit = 1
  /\ Cardinality(C30_RowsOfCall("CA1")) = 2
  /\ harness.status = 200
  /\ harness.session.transcript[1].id = 2

----------------------------------------------------------------------------
\* The action queue as a union in order (SpecActions).

\* The texts in the order of the union: next.what_to_do, previous.what_to_do,
\* previous.next_steps, next.next_steps.
C31_Union ==
  <<harness.next.whatToDo>>
    \o (IF harness.previous.present THEN <<harness.previous.whatToDo>> ELSE <<>>)
    \o (IF harness.previous.present THEN harness.previous.nextSteps ELSE <<>>)
    \o harness.next.nextSteps

C31_Canonical(i) == normalizeActionText(C31_Union[i])

\* The places of the union that are not empty and repeat no earlier place.
C31_Kept ==
  {i \in 1..Len(C31_Union) :
     /\ C31_Canonical(i) # <<>>
     /\ \A j \in 1..(i - 1) : actionKey(C31_Canonical(j)) # actionKey(C31_Canonical(i))}

\* The m-th kept place.
C31_Place(m) == CHOOSE i \in C31_Kept : Cardinality({j \in C31_Kept : j <= i}) = m

\* C31: the stabilized action queue is the in-order union of
\* next.what_to_do, previous.what_to_do, previous.next_steps and
\* next.next_steps with empties and case-insensitive duplicates dropped; its
\* first entry becomes what_to_do and the next two become next_steps, and the
\* fixed fallback string is used when the union is empty.
C31_QueueIsOrderedUnion ==
  harness.applied =>
    LET entries == <<harness.result.whatToDo>> \o harness.result.nextSteps
        kept == Cardinality(C31_Kept)
    IN  IF kept = 0 THEN entries = <<DefaultWhatToDo>>
        ELSE /\ Len(entries) = IF kept < 3 THEN kept ELSE 3
             /\ \A m \in 1..Len(entries) : entries[m] = C31_Canonical(C31_Place(m))

\* C31, its case: the new action is blank, the previous advice supplies the
\* first two entries and the steps of the new advice the third, after a
\* repeat of a previous step in other spacing and case.
C31_Witness ==
  /\ harness.applied
  /\ harness.next.whatToDo = <<" ">>
  /\ harness.previous.present
  /\ harness.previous.whatToDo = <<"A", " ">>
  /\ harness.previous.nextSteps = <<<<"a", " ", " ", "b">>>>
  /\ harness.next.nextSteps = <<<<"A", "\t", "b">>, <<"b">>>>
  /\ harness.result.whatToDo = <<"A">>
  /\ harness.result.nextSteps = <<<<"a", " ", "b">>, <<"b">>>>

\* C31, the empty union: every text is blank and the fallback is shown.
C31_FallbackWitness ==
  /\ harness.applied
  /\ C31_Kept = {}
  /\ harness.previous.present
  /\ harness.result.whatToDo = DefaultWhatToDo

----------------------------------------------------------------------------
\* Band crossing (SpecStabilize).

\* The raw score lands in the band that starts at `boundary` and the
\* previous score lies below it.
C32_Crosses(boundary) ==
  harness.previous.riskScore < boundary /\ harness.next.riskScore >= boundary

\* The stored score has moved up by more than the base cap of the confidence.
C32_MovedBeyondBase ==
  harness.result.riskScore - harness.previous.riskScore
    > baseMaxStep(harness.next.confidence)

\* C32: the step limit is raised whenever the new score crosses a risk
\* boundary: a move from below 40 to 40 or above gets a larger cap than the
\* base cap of its confidence, as does a move from below 70 to 70 or above.
\* A raw score further away than the base cap is therefore approached by
\* more than the base cap.
C32_BandCrossingRaisesCap ==
  /\ harness.applied
  /\ C32_Crosses(40) \/ C32_Crosses(70)
  /\ harness.next.riskScore - harness.previous.riskScore > baseMaxStep(harness.next.confidence)
  => C32_MovedBeyondBase

----------------------------------------------------------------------------
\* The end of the worker of a terminal call (SpecWorker).

\* The session of c is terminal for a reader: no row, or status ended/failed.
C33_Terminal(c) ==
  \/ ~live_calls[c].exists
  \/ isTerminalStatus(normalizeSessionStatus(live_calls[c].status))

\* Task k of c reads the summary in this step: the cycle goes on (or ends, if
\* the row is missing) and the mailbox remembers what the read saw.
C33_Observes(c, k) ==
  tasks[c][k].pc = "summary" /\ tasks'[c][k].pc \notin {"summary", "catch"}
    => /\ adviceRunState'[c].terminal = C33_Terminal(c)
       /\ tasks'[c][k].pc = IF live_calls[c].exists THEN "chunks" ELSE "loop"

\* Task k of c leaves a finished cycle of a terminal session with nothing
\* pending: the entry of c is removed from the map and the task ends.
C33_Releases(c, k) ==
  /\ tasks[c][k].pc = "loop" /\ tasks'[c][k] # tasks[c][k]
  /\ adviceRunState[c].terminal /\ ~adviceRunState[c].pending
  => /\ adviceRunState'[c] = NoState
     /\ tasks'[c][k] = IdleTask

\* A cycle starts for an idle call only in a step that enqueues: the step of
\* a webhook event, which leaves a running entry in the map.
C33_StartsByEnqueue(c) ==
  /\ \A k \in TaskIds : tasks[c][k].pc = "idle"
  /\ \E k \in TaskIds : tasks'[c][k].pc # "idle"
  => /\ ~adviceRunState[c].running
     /\ adviceRunState'[c].running
     /\ live_calls'[c].exists

\* C33: when a cycle observes the session terminal (row missing, or status
\* ended/failed), the worker completes that cycle; if nothing is pending it
\* then releases its mailbox slot and exits, and no advice cycle runs for
\* that call id afterwards unless a new webhook enqueue arrives.
C33_TerminalCleanup ==
  [][\A c \in CallIds :
       /\ \A k \in TaskIds : C33_Observes(c, k) /\ C33_Releases(c, k)
       /\ C33_StartsByEnqueue(c)]_vars

\* C33, its case: the session of CA1 has ended, a cycle has stored an advice
\* for it, and the worker has left: no entry in the map, no task.
C33_Witness ==
  /\ live_calls["CA1"].exists
  /\ C33_Terminal("CA1")
  /\ live_calls["CA1"].last_advice_at # 0
  /\ adviceRunState["CA1"] = NoState
  /\ \A k \in TaskIds : tasks["CA1"][k] = IdleTask

----------------------------------------------------------------------------
\* The fingerprints of two transcript events of one call.

\* The id fields of an event: none, a segment sid, a source hint (plain, or
\* with the bar the fingerprint joins on), a transcription sid with or
\* without a sequence id.
FingerprintIds ==
  {[segmentSid |-> seg, sourceHint |-> hint, transcriptionSid |-> sid.t, sequenceId |-> sid.s] :
     seg \in {Null, "SG1"}, hint \in {Null, "H1", "H1|a"},
     sid \in {[t |-> Null, s |-> Null], [t |-> "TR1", s |-> "1"], [t |-> "TR1", s |-> Null]}}

\* When and by whom the text was said, and whether the result is final.
FingerprintMarks ==
  {[timestamp |-> StartTime, speaker |-> "other", isFinal |-> FALSE],
   [timestamp |-> StartTime + 1, speaker |-> "caller", isFinal |-> TRUE]}

FingerprintTexts == {"b", "a|b", "hello", "Hello "}

FingerprintEvents ==
  {[ids |-> ids, mark |-> mark, text |-> text] :
     ids \in FingerprintIds, mark \in FingerprintMarks, text \in FingerprintTexts}

\* parseTwilioWebhookEvent: the sourceEventId of an event of CA1.
SourceEventIdOf(event) ==
  buildSourceEventId("CA1", event.ids.transcriptionSid, event.ids.sequenceId,
                     event.ids.segmentSid, event.ids.sourceHint,
                     event.mark.timestamp, event.mark.speaker, event.text)

InitFingerprint ==
  /\ InitEmpty
  /\ \E first \in FingerprintEvents, second \in FingerprintEvents :
       harness = [applied |-> FALSE, first |-> first, second |-> second,
                  firstId |-> Null, secondId |-> Null]

Fingerprint ==
  /\ ~harness.applied
  /\ harness' = [harness EXCEPT !.applied = TRUE,
                                !.firstId = SourceEventIdOf(harness.first),
                                !.secondId = SourceEventIdOf(harness.second)]
  /\ UNCHANGED <<now, live_calls, live_transcript_chunks, adviceRunState, tasks, env, hist>>

NextFingerprint == Fingerprint

SpecFingerprint == InitFingerprint /\ [][NextFingerprint]_vars

\* The primary id: the first non-empty of segment sid, source hint,
\* transcription sid and sequence id joined by a colon, else
\* timestamp:speaker.
C34_PrimaryId(event) ==
  LET ids == event.ids
  IN  IF ids.segmentSid # Null THEN ids.segmentSid
      ELSE IF ids.sourceHint # Null THEN ids.sourceHint
      ELSE IF ids.transcriptionSid # Null /\ ids.sequenceId # Null
        THEN ids.transcriptionSid \o ":" \o ids.sequenceId
      ELSE IF ids.transcriptionSid # Null THEN ids.transcriptionSid
      ELSE IF ids.sequenceId # Null THEN ids.sequenceId
      ELSE ToString(event.mark.timestamp) \o ":" \o event.mark.speaker

C34_Agree(first, second) ==
  /\ C34_PrimaryId(first) = C34_PrimaryId(second)
  /\ toLowerCase(trim(first.text)) = toLowerCase(trim(second.text))

\* A replay: the same id fields and the same text.
C34_Replay(first, second) == first.ids = second.ids /\ first.text = second.text

\* The primary ids that hold the bar of the join.
C34_HasBar(primaryId) == primaryId \in {"H1|a"}

\* C34 as stated: two transcript events of one call get the same
\* source_event_id exactly when they agree on the primary id and on the
\* trimmed lower-cased text; so a replay with the same TranscriptionSid,
\* SequenceId and text deduplicates whatever its timestamp, speaker or
\* finality.
C34_SameIdIffAgree ==
  harness.applied =>
    /\ (harness.firstId = harness.secondId) <=> C34_Agree(harness.first, harness.second)
    /\ C34_Replay(harness.first, harness.second) /\ harness.first.ids.transcriptionSid # Null
         => harness.firstId = harness.secondId

\* C34, amended: events that agree on the primary id and on the trimmed
\* lower-cased text get the same source_event_id, and events whose primary
\* ids hold no bar get the same id only if they agree on both; a replay with
\* the same id fields and text deduplicates whatever its timestamp, speaker
\* or finality.
C34_SameIdIffAgreeBarFree ==
  harness.applied =>
    /\ C34_Agree(harness.first, harness.second) => harness.firstId = harness.secondId
    /\ /\ harness.firstId = harness.secondId
       /\ ~C34_HasBar(C34_PrimaryId(harness.first))
       /\ ~C34_HasBar(C34_PrimaryId(harness.second))
       => C34_Agree(harness.first, harness.second)
    /\ C34_Replay(harness.first, harness.second) /\ harness.first.ids.transcriptionSid # Null
         => harness.firstId = harness.secondId

\* C34, its case: a replay of a transcription result under another
\* timestamp, speaker, finality and letter case gets the id of the original.
C34_Witness ==
  /\ harness.applied
  /\ harness.first.ids = [segmentSid |-> Null, sourceHint |-> Null,
                          transcriptionSid |-> "TR1", sequenceId |-> "1"]
  /\ harness.second.ids = harness.first.ids
  /\ harness.first.mark # harness.second.mark
  /\ harness.first.text = "hello" /\ harness.second.text = "Hello "
  /\ harness.firstId = harness.secondId

----------------------------------------------------------------------------
\* SpecPerCall: two calls, each with one final transcript; the model is rate
\* limited for CA1 and answers for CA2, and time passes in steps shorter than
\* a backoff.

PerCallErrors == {[isModelAdviceError |-> TRUE, statusCode |-> 429, retryAfterMs |-> 0]}

PerCallTicks == {5000}

NextPerCall ==
  \/ \E c \in CallIds :
       POST(c, "case-a", Null, Transcript(c, "TR1", "1", "other", "hello", TRUE, StartTime))
  \/ \E d \in PerCallTicks : Tick(d)
  \/ \E k \in TaskIds : \E e \in PerCallErrors : ModelThrows("CA1", k, e)
  \/ \E k \in TaskIds : \E a \in PlainModelAdvice : ModelReturns("CA2", k, a)
  \/ \E c \in CallIds, k \in TaskIds :
       \/ SummaryStep(c, k, TRUE)
       \/ ChunksStep(c, k, TRUE)
       \/ HeuristicWriteStep(c, k, TRUE)
       \/ AnalyzingStep(c, k, TRUE)
       \/ ModelWriteStep(c, k, TRUE)
       \/ FallbackWriteStep(c, k, TRUE)
       \/ LoopStep(c, k)

SpecPerCall == Init /\ [][NextPerCall]_vars

\* The backoff state of a mailbox.
C35_Backoff(state) ==
  <<state.modelCooldownUntil, state.rateLimitStreak, state.lastRateLimitAt,
    state.lastModelRunAt>>

\* A task of call c moves in this step.
C35_StepOf(c) == tasks'[c] # tasks[c]

\* C35: backoff state is per call: a 429 or any other model outcome of one
\* call leaves the cooldown, streak, last_rate_limit_at and last_model_run_at
\* of every other call unchanged and never delays another call's model
\* requests: whether the other call may run the model is the same before and
\* after the step.
C35_BackoffPerCall ==
  [][\A c \in CallIds : \A d \in CallIds \ {c} :
       C35_StepOf(c) =>
         /\ C35_Backoff(adviceRunState'[d]) = C35_Backoff(adviceRunState[d])
         /\ \A forceModel \in BOOLEAN :
              shouldRunModel(adviceRunState'[d], forceModel, FALSE, now')
                = shouldRunModel(adviceRunState[d], forceModel, FALSE, now)]_vars

\* C35, its case: CA1 is in the cooldown of a 429 and CA2 has issued a model
\* request since that 429, with no backoff of its own.
C35_Witness ==
  /\ adviceRunState["CA1"].modelCooldownUntil > now
  /\ adviceRunState["CA1"].rateLimitStreak = 1
  /\ hist["CA2"].requestAt > adviceRunState["CA1"].lastRateLimitAt
  /\ adviceRunState["CA2"].exists
  /\ adviceRunState["CA2"].modelCooldownUntil = 0
  /\ adviceRunState["CA2"].rateLimitStreak = 0

----------------------------------------------------------------------------
\* SpecWakeup: the worker of one call with every outcome of every await,
\* fed events that enqueue; the harness tells the steps that enqueue from
\* the worker's own.

NoEnqueue == [call |-> Null, flip |-> FALSE]

\* A webhook event that calls runAdviceForCall.
EnqueueEvent(c, status, transcript) ==
  /\ EnqueuesAdvice(status, transcript)
  /\ HandleEvent(c, "case-a", status, transcript)
  /\ harness' = [call |-> c, flip |-> ~harness.flip]

InitWakeup == InitEmpty /\ harness = NoEnqueue

NextWakeup ==
  \/ \E st \in WorkerStatuses :
       \E tr \in {NoTranscript} \cup CallTranscripts("CA1") : EnqueueEvent("CA1", st, tr)
  \/ \E k \in TaskIds : WorkerStep("CA1", k, BOOLEAN, PlainModelAdvice, ModelErrors)

\* Every await of a running loop eventually settles.
SpecWakeup ==
  /\ InitWakeup /\ [][NextWakeup]_vars
  /\ WF_vars(\E k \in TaskIds : WorkerStep("CA1", k, BOOLEAN, PlainModelAdvice, ModelErrors))

C36_EnqueueStep(c) == harness'.flip # harness.flip /\ harness'.call = c

\* A cycle of c starts in this step.
C36_Starts(c) ==
  \E k \in TaskIds : tasks[c][k].pc \in {"idle", "loop"} /\ tasks'[c][k].pc = "summary"

\* An enqueue that finds no loop starts a cycle at once; one that finds the
\* loop running is noted as pending and moves no task.
C36_EnqueueNoted(c) ==
  C36_EnqueueStep(c) =>
    IF adviceRunState[c].running
      THEN /\ adviceRunState'[c].running /\ adviceRunState'[c].pending
           /\ tasks' = tasks
      ELSE /\ C36_Starts(c)
           /\ adviceRunState'[c].running /\ ~adviceRunState'[c].pending

\* A cycle starts only for an enqueue, and its start takes up everything
\* pending; the loop that finds nothing pending ends without another cycle.
C36_OneCycleForAll(c) ==
  /\ C36_Starts(c) =>
       /\ C36_EnqueueStep(c) \/ adviceRunState[c].pending
       /\ ~adviceRunState'[c].pending
       /\ Cardinality({k \in TaskIds : tasks'[c][k].pc # "idle"}) = 1
  /\ adviceRunState[c].pending /\ ~adviceRunState'[c].pending => C36_Starts(c)
  /\ \A k \in TaskIds :
       tasks[c][k].pc = "loop" /\ ~adviceRunState[c].pending /\ tasks'[c][k] # tasks[c][k]
         => tasks'[c][k] = IdleTask /\ ~C36_Starts(c)

\* C36: no lost wake-up and coalescing: every enqueue for a call id is
\* followed by at least one cycle that starts after the enqueue, and any
\* number of enqueues that arrive during one running cycle cause exactly one
\* additional cycle.
C36_NoLostWakeup ==
  /\ [][\A c \in CallIds : C36_EnqueueNoted(c) /\ C36_OneCycleForAll(c)]_vars
  /\ \A c \in CallIds : adviceRunState[c].pending ~> ~adviceRunState[c].pending

\* C36, its case: an enqueue has arrived while the model call of the running
\* cycle is in flight, after the cycle has read the transcript.
C36_Witness ==
  /\ harness.call = "CA1"
  /\ adviceRunState["CA1"].running /\ adviceRunState["CA1"].pending
  /\ \E k \in TaskIds : tasks["CA1"][k].pc = "model"
  /\ Len(live_transcript_chunks) = 1
  /\ hist["CA1"].duplicate

----------------------------------------------------------------------------
\* C37: a throw inside a cycle

\* A step of the cycle of c has thrown and the loop's catch has it.
C37_Caught(c) == \E k \in TaskIds : tasks[c][k].pc = "catch"

\* The loop of c is at its test of pending.
C37_AtLoopTest(c) == \E k \in TaskIds : tasks[c][k].pc = "loop"

\* The catch hands the task back to the loop test with the mailbox as it
\* was; the test starts the next cycle when a request is pending and
\* otherwise ends the loop with running reset; an enqueue that finds no
\* loop starts one.
C37_LoopGoesOn(c) ==
  /\ \A k \in TaskIds :
       /\ tasks[c][k].pc = "catch" /\ tasks'[c][k] # tasks[c][k]
            => /\ tasks'[c][k].pc = "loop"
               /\ adviceRunState'[c] = adviceRunState[c]
               /\ adviceRunState[c].running
       /\ tasks[c][k].pc = "loop" /\ tasks'[c][k] # tasks[c][k]
            => IF adviceRunState[c].pending
                 THEN tasks'[c][k].pc = "summary" /\ adviceRunState'[c].running
                 ELSE tasks'[c][k] = IdleTask /\ ~adviceRunState'[c].running
  /\ C36_EnqueueStep(c) /\ ~adviceRunState[c].running
       => C36_Starts(c) /\ adviceRunState'[c].running

\* C37: if any step of a cycle throws, the worker loop does not wedge:
\* pending requests are still processed, running returns to false once
\* nothing is pending, and a later enqueue starts a new loop.
C37_ThrowDoesNotWedge ==
  /\ [][\A c \in CallIds : C37_LoopGoesOn(c)]_vars
  /\ \A c \in CallIds :
       /\ C37_Caught(c) ~> C37_AtLoopTest(c)
       /\ C37_Caught(c) /\ adviceRunState[c].pending
            ~> (\E k \in TaskIds : tasks[c][k].pc = "summary") /\ ~adviceRunState[c].pending
       /\ []<>(~adviceRunState[c].running \/ adviceRunState[c].pending)

\* C37, its case: the transcript read of a cycle has thrown (the summary
\* read had succeeded on the existing row) while a request is pending.
C37_Witness ==
  /\ C37_Caught("CA1")
  /\ adviceRunState["CA1"].pending
  /\ live_calls["CA1"].exists
  /\ Len(live_transcript_chunks) = 1

----------------------------------------------------------------------------
\* SpecFailed: a call that receives transcript events and then, with no
\* cycle running, the status event of its failure; every database call
\* succeeds and the model answers.

FailedStatuses == {"failed", "busy"}

FailureNote(status) == "Call status changed to " \o status \o "."

NextFailed ==
  \/ \E tr \in CallTranscripts("CA1") :
       /\ ~isTerminalStatus(live_calls["CA1"].status)
       /\ POST("CA1", "case-a", Null, tr)
  \/ \E st \in FailedStatuses :
       /\ ~adviceRunState["CA1"].running
       /\ ~isTerminalStatus(live_calls["CA1"].status)
       /\ POST("CA1", "case-a", st, NoTranscript)
  \/ \E d \in TickSteps : Tick(d)
  \/ \E k \in TaskIds :
       \/ SummaryStep("CA1", k, TRUE)
       \/ ChunksStep("CA1", k, TRUE)
       \/ HeuristicWriteStep("CA1", k, TRUE)
       \/ AnalyzingStep("CA1", k, TRUE)
       \/ \E a \in PlainModelAdvice : ModelReturns("CA1", k, a)
       \/ ModelWriteStep("CA1", k, TRUE)
       \/ LoopStep("CA1", k)

SpecFailed == Init /\ [][NextFailed]_vars

\* The cycle that the failure event started has finished: the call is
\* failed and its loop is at the test of pending or gone.
C38_CycleFinished(c) ==
  /\ live_calls[c].exists /\ live_calls[c].status = "failed"
  /\ \A k \in TaskIds : tasks[c][k].pc \in {"idle", "loop"}

\* C38: after ingest records a transition to failed and sets last_error to
\* its failure note, the note is still in last_error when the advice cycle
\* triggered by that same event has finished without a model failure.
C38_FailureNoteKept ==
  \A c \in CallIds :
    C38_CycleFinished(c) =>
      live_calls[c].last_error \in {FailureNote(st) : st \in FailedStatuses}

----------------------------------------------------------------------------
\* SpecConverge: cycle after cycle stabilizes the same raw advice against
\* the advice the cycle before has persisted.  harness.previous is the
\* advice persisted before the last cycle, harness.result the one after it.

Persisted == IF harness.applied THEN harness.result ELSE harness.previous

InitConverge == InitStabilize

\* One cycle: the heuristic write of runAdviceCycle.
StabilizeCycle ==
  /\ harness' = [harness EXCEPT !.applied = TRUE,
                                !.previous = Persisted,
                                !.result = stabilizeAdvice(harness.next, Persisted)]
  /\ UNCHANGED <<now, live_calls, live_transcript_chunks, adviceRunState, tasks, env, hist>>

NextConverge == StabilizeCycle

\* Cycles keep coming while they change the persisted advice.
SpecConverge == InitConverge /\ [][NextConverge]_vars /\ WF_vars(StabilizeCycle)

C39_Between(x, a, b) == (a <= x /\ x <= b) \/ (b <= x /\ x <= a)

----------------------------------------------------------------------------
(* lib/live-call-session.ts: the in-memory session store, for one call.   *)
(* In SpecSession the harness is the session object together with the     *)
(* event loop's view of it: timerArmed, whether a timeout is waiting to   *)
(* fire (analysisTimer is the handle the session remembers); inFlight,    *)
(* the calls of generateLiveAdvice not yet settled; owed, the length of   *)
(* the transcript after the last chunk appended while the session was not *)
(* terminal; covered, the length of the transcript at the start of the    *)
(* latest analysis.  version and updatedAt are left out, and with them    *)
(* pruneExpiredSessions.                                                  *)

MaxSessionChunks == 2
MAX_TRANSCRIPT_CHUNKS == 220

NoSession ==
  [exists |-> FALSE, slug |-> "unknown", status |-> "queued", analyzing |-> FALSE,
   pendingRun |-> FALSE, lastError |-> Null, lastAnalyzedCount |-> 0,
   transcript |-> <<>>, analysisTimer |-> FALSE,
   timerArmed |-> FALSE, inFlight |-> 0, owed |-> 0, covered |-> 0]

ensureSession(session, slug) ==
  IF session.exists
    THEN (IF session.slug = "unknown" /\ slug # "unknown"
            THEN [session EXCEPT !.slug = slug] ELSE session)
    ELSE [session EXCEPT !.exists = TRUE, !.slug = slug]

\* pendingRun is set and the timer restarted.
scheduleAnalysis(session) ==
  IF ~session.exists THEN session
  ELSE [session EXCEPT !.pendingRun = TRUE, !.analysisTimer = TRUE, !.timerArmed = TRUE]

\* appendTranscriptChunk of the session store.
appendSessionChunk(session, slug, speaker, text, isFinal) ==
  LET content == trim(text)
      ensured == ensureSession(session, slug)
      entry == [speaker |-> normalizeSpeaker(speaker), text |-> content]
      n == Len(ensured.transcript)
      pushed == Append(ensured.transcript, entry)
      kept == IF Len(pushed) > MAX_TRANSCRIPT_CHUNKS THEN Tail(pushed) ELSE pushed
      stored == [ensured EXCEPT !.transcript = kept]
  IN  IF content = "" THEN session
      ELSE IF ~isFinal THEN ensured
      ELSE IF n > 0 /\ ensured.transcript[n] = entry THEN ensured
      ELSE IF isTerminalStatus(stored.status) THEN stored
      ELSE [scheduleAnalysis(stored) EXCEPT !.owed = Len(kept)]

setCallStatus(session, rawStatus) ==
  [ensureSession(session, "unknown") EXCEPT !.status = normalizeSessionStatus(rawStatus)]

\* runAnalysis up to its await: the session, with the analysis started or not.
runAnalysis(session) ==
  IF ~session.exists THEN session
  ELSE IF session.analyzing THEN session
  ELSE IF Len(session.transcript) = 0
    THEN [session EXCEPT !.analysisTimer = FALSE, !.pendingRun = FALSE]
  ELSE IF session.lastAnalyzedCount >= Len(session.transcript) /\ ~session.pendingRun
    THEN [session EXCEPT !.analysisTimer = FALSE]
  ELSE [session EXCEPT !.analysisTimer = FALSE, !.analyzing = TRUE, !.pendingRun = FALSE,
                       !.inFlight = @ + 1, !.covered = Len(session.transcript)]

\* runAnalysis after generateLiveAdvice has returned.
AnalysisReturned(session) ==
  LET latest == [session EXCEPT !.lastError = Null,
                                !.lastAnalyzedCount = Len(session.transcript),
                                !.analyzing = FALSE, !.inFlight = @ - 1]
  IN  IF latest.lastAnalyzedCount < Len(latest.transcript) /\ ~isTerminalStatus(latest.status)
        THEN scheduleAnalysis(latest) ELSE latest

\* runAnalysis's catch block.
AnalysisThrew(session) ==
  LET latest == [session EXCEPT
                   !.lastError = "Live analysis is delayed. Keep verifying through official channels.",
                   !.analyzing = FALSE, !.inFlight = @ - 1]
  IN  IF ~isTerminalStatus(latest.status) THEN scheduleAnalysis(latest) ELSE latest

SessionUnchanged ==
  UNCHANGED <<now, live_calls, live_transcript_chunks, adviceRunState, tasks, env, hist>>

SessionTexts == {"hello", "Hello ", " "}
SessionStatuses == {"in-progress", "completed"}

\* A transcript event of the call.
SessionAppend(text, isFinal) ==
  /\ Len(harness.transcript) < MaxSessionChunks
  /\ harness' = appendSessionChunk(harness, "case-a", "other", text, isFinal)
  /\ SessionUnchanged

\* A status event of the call; none follows the one that ends it.
SessionStatus(rawStatus) ==
  /\ ~isTerminalStatus(harness.status)
  /\ harness' = setCallStatus(harness, rawStatus)
  /\ SessionUnchanged

\* The debounce timeout fires.
TimerFires ==
  /\ harness.timerArmed
  /\ harness' = runAnalysis([harness EXCEPT !.timerArmed = FALSE])
  /\ SessionUnchanged

\* generateLiveAdvice settles.
AnalysisSettles ==
  /\ harness.inFlight > 0
  /\ harness' \in {AnalysisReturned(harness), AnalysisThrew(harness)}
  /\ SessionUnchanged

InitSession == InitEmpty /\ harness = NoSession

NextSession ==
  \/ \E text \in SessionTexts, isFinal \in BOOLEAN : SessionAppend(text, isFinal)
  \/ \E rawStatus \in SessionStatuses : SessionStatus(rawStatus)
  \/ TimerFires
  \/ AnalysisSettles

\* An armed timeout fires and a call of generateLiveAdvice settles.
SpecSession ==
  /\ InitSession /\ [][NextSession]_vars
  /\ WF_vars(TimerFires) /\ WF_vars(AnalysisSettles)

\* C40: in the in-memory session store, every final transcript chunk
\* appended to a non-terminal session is eventually covered by an analysis
\* run that started after the chunk was appended, also when the chunk
\* arrives while an analysis is in flight and the debounce timer fires
\* before that analysis completes; and at most one analysis per session is
\* in flight at any time.  (A session that has become terminal is excused.)
C40_EveryChunkAnalyzed ==
  /\ [](harness.inFlight <= 1)
  /\ \A i \in 1..MaxSessionChunks :
       (harness.owed >= i) ~> (harness.covered >= i \/ isTerminalStatus(harness.status))

\* The part of C40 that holds: at most one analysis is in flight.
C40_OneAnalysisInFlight == harness.inFlight <= 1 /\ (harness.inFlight = 1 <=> harness.analyzing)

====
